---- MODULE Spec2Model ----
(***************************************************************************)
(* Glace interpreter: the lexer (Tokenize, one step per loop iteration),   *)
(* the Pratt parser (parseProgram and the parse functions it calls), the   *)
(* tree-walking evaluator (Eval and its helpers), the scope chain          *)
(* (Environment) and the entry points that drive them (REPL turn, run).    *)
(* Programs are AST values as the parser builds them; the evaluator is a   *)
(* recursive operator threading the interpreter state (scopes, closures,   *)
(* arrays) through every call, as the Go code does through pointers.       *)
(***************************************************************************)
EXTENDS Integers, Sequences, FiniteSets, TLC

VARIABLES
    mode,    \* "idle", "repl" (a session is open), "test", "exited", "done", "hung"
    heap,    \* the interpreter's objects: scopes, closures, arrays
    root,    \* the root scope of the session or run, 0 before there is one
    before,  \* heap as it was when the last top-level evaluation began
    hist,    \* the top-level evaluations so far: source and outcome of each
    trace,   \* the loop and match steps of the last top-level evaluation
    suite,   \* the family of sources this behaviour draws its input from
    lexer,   \* the Lexer scanning a source text, NoLexer when none is
    parser,  \* the Parser reading a token list, NoParser when none is
    runner   \* the call of RunTests under way, NoRunner when none is

vars == <<mode, heap, root, before, hist, trace, suite, lexer, parser, runner>>

\* ------------------------------------------------------------------------
\* Bounds
\* ------------------------------------------------------------------------
\* REPL lines read in one session.
MaxTurns == 3
\* Loop body entries allowed in one top-level evaluation before the model
\* reports the evaluation as not terminating.
MaxIter == 32
\* Characters in a source text given to the lexer.
MaxSrc == 4
\* Lexemes in a source text given to the parser.
MaxLexemes == 3
\* Diagnostics after which the model stops following the parser.
MaxErrors == 3

\* ------------------------------------------------------------------------
\* Values (values.go)
\* ------------------------------------------------------------------------
\* Every value is a record of one shape; t is Value.Type().  Closures and
\* arrays are pointers in Go: n is the index of the object in the heap.
MkVal(t, n, m, k, s) == [t |-> t, n |-> n, m |-> m, k |-> k, s |-> s]

NewInt(i) == MkVal("int", i, 0, 0, "")
\* The floats of the model are the multiples of 0.5: n is the number of halves.
NewFloat(halves) == MkVal("float", halves, 0, 0, "")
NewString(s) == MkVal("string", 0, 0, 0, s)
NewBool(b) == MkVal("bool", IF b THEN 1 ELSE 0, 0, 0, "")
TRUEV == NewBool(TRUE)
FALSEV == NewBool(FALSE)
NONE == MkVal("none", 0, 0, 0, "")
FnRef(id) == MkVal("fn", id, 0, 0, "")
ArrayRef(id) == MkVal("array", id, 0, 0, "")
RangeValue(start, end, step) == MkVal("range", start, end, step, "")
BuiltinFn(name) == MkVal("builtin", 0, 0, 0, name)
\* Go's nil Value, returned next to a non-nil error.
NilValue == MkVal("nil", 0, 0, 0, "")

\* Integer division and remainder truncating toward zero, as Go's / and %.
Abs(i) == IF i < 0 THEN -i ELSE i
GoDiv(a, b) == IF (a < 0) = (b < 0) THEN Abs(a) \div Abs(b) ELSE -(Abs(a) \div Abs(b))
GoMod(a, b) == a - b * GoDiv(a, b)

RangeLen(v) ==
    IF v.k > 0 /\ v.m > v.n THEN GoDiv(v.m - v.n + v.k - 1, v.k)
    ELSE IF v.k < 0 /\ v.n > v.m THEN GoDiv(v.n - v.m - v.k - 1, -v.k)
    ELSE 0

RangeAt(v, i) == v.n + i * v.k

IsTruthy(st, v) ==
    CASE v.t = "none" -> FALSE
      [] v.t = "bool" -> v.n = 1
      [] v.t = "int" -> v.n # 0
      [] v.t = "string" -> v.s # ""
      [] v.t = "array" -> Len(st.arrs[v.n]) > 0
      [] OTHER -> TRUE

RECURSIVE ElementsEqual(_, _, _, _)
RECURSIVE Equals(_, _, _)
\* Value.Equals: structural for scalars, ranges and arrays, identity for
\* closures and built-ins.
Equals(st, a, b) ==
    CASE a.t = "int" -> b.t = "int" /\ a.n = b.n
      [] a.t = "float" -> b.t = "float" /\ a.n = b.n
      [] a.t = "bool" -> b.t = "bool" /\ a.n = b.n
      [] a.t = "string" -> b.t = "string" /\ a.s = b.s
      [] a.t = "none" -> b.t = "none"
      [] a.t = "range" -> b.t = "range" /\ a.n = b.n /\ a.m = b.m /\ a.k = b.k
      [] a.t = "array" ->
            /\ b.t = "array"
            /\ Len(st.arrs[a.n]) = Len(st.arrs[b.n])
            /\ ElementsEqual(st, st.arrs[a.n], st.arrs[b.n], 1)
      [] a.t = "fn" -> b.t = "fn" /\ a.n = b.n
      [] a.t = "builtin" -> b.t = "builtin" /\ a.s = b.s
      [] OTHER -> FALSE

ElementsEqual(st, xs, ys, i) ==
    IF i > Len(xs) THEN TRUE
    ELSE IF ~Equals(st, xs[i], ys[i]) THEN FALSE
    ELSE ElementsEqual(st, xs, ys, i + 1)

\* ------------------------------------------------------------------------
\* Environment (environment.go)
\* ------------------------------------------------------------------------
\* A scope is [store, parent]; store maps the names bound in this scope to
\* binding records, parent is the index of the enclosing scope, 0 for nil.
EmptyStore == [n \in {} |-> 0]

binding(val, mutable) == [value |-> val, mutable |-> mutable]

\* arrs[id] is the Elements slice of array id up to its length, data[id] the
\* backing array the slice points to, and mem the backing arrays: the slots
\* written so far and the capacity.
EmptyHeap == [envs |-> <<>>, fns |-> <<>>, arrs |-> <<>>, data |-> <<>>, mem |-> <<>>]

\* The new scope is the last one of st.envs.
NewEnclosedEnvironment(st, parent) ==
    [st EXCEPT !.envs = Append(@, [store |-> EmptyStore, parent |-> parent])]

NewEnvironment(st) == NewEnclosedEnvironment(st, 0)

Has(st, e, name) == name \in DOMAIN st.envs[e].store

\* Define refusing a name that the enclosing scope binds as well.
DefineChecksParent(st, e, name, val, mutable) ==
    IF Has(st, e, name) \/ (st.envs[e].parent # 0 /\ Has(st, st.envs[e].parent, name))
    THEN [st |-> st, err |-> "variable '%s' is already defined in this scope"]
    ELSE [st |-> [st EXCEPT !.envs[e].store = (name :> binding(val, mutable)) @@ @],
          err |-> ""]

\* Returns the state and the error text ("" for nil).
Define(st, e, name, val, mutable) ==
    IF Has(st, e, name)
    THEN [st |-> st, err |-> "variable '%s' is already defined in this scope"]
    ELSE [st |-> [st EXCEPT !.envs[e].store = (name :> binding(val, mutable)) @@ @],
          err |-> ""]

RECURSIVE Get(_, _, _)
Get(st, e, name) ==
    IF Has(st, e, name) THEN [value |-> st.envs[e].store[name].value, ok |-> TRUE]
    ELSE IF st.envs[e].parent # 0 THEN Get(st, st.envs[e].parent, name)
    ELSE [value |-> NilValue, ok |-> FALSE]

RECURSIVE SetUnchecked(_, _, _, _)
SetUnchecked(st, e, name, val) ==
    IF Has(st, e, name)
    THEN [st |-> [st EXCEPT !.envs[e].store[name] = binding(val, TRUE)], err |-> ""]
    ELSE IF st.envs[e].parent # 0 THEN SetUnchecked(st, st.envs[e].parent, name, val)
    ELSE [st |-> st, err |-> "undefined variable '%s'"]

\* Set passing over an immutable binding to an outer scope's binding.
RECURSIVE SetSkipsImmutable(_, _, _, _)
SetSkipsImmutable(st, e, name, val) ==
    IF Has(st, e, name) /\ st.envs[e].store[name].mutable
    THEN [st |-> [st EXCEPT !.envs[e].store[name] = binding(val, TRUE)], err |-> ""]
    ELSE IF st.envs[e].parent # 0 THEN SetSkipsImmutable(st, st.envs[e].parent, name, val)
    ELSE IF Has(st, e, name)
    THEN [st |-> st, err |-> "cannot assign to immutable variable '%s'"]
    ELSE [st |-> st, err |-> "undefined variable '%s'"]

RECURSIVE Set(_, _, _, _)
Set(st, e, name, val) ==
    IF Has(st, e, name)
    THEN IF ~st.envs[e].store[name].mutable
         THEN [st |-> st, err |-> "cannot assign to immutable variable '%s'"]
         ELSE [st |-> [st EXCEPT !.envs[e].store[name] = binding(val, TRUE)],
               err |-> ""]
    ELSE IF st.envs[e].parent # 0 THEN Set(st, st.envs[e].parent, name, val)
    ELSE [st |-> st, err |-> "undefined variable '%s'"]

RECURSIVE IsMutable(_, _, _)
IsMutable(st, e, name) ==
    IF Has(st, e, name) THEN st.envs[e].store[name].mutable
    ELSE IF st.envs[e].parent # 0 THEN IsMutable(st, st.envs[e].parent, name)
    ELSE FALSE

\* ------------------------------------------------------------------------
\* AST nodes (ast.go), as the parser builds them
\* ------------------------------------------------------------------------
\* k is the node's Go type; Nil stands for a nil Expression or Statement
\* field.  pos is the node's source position, used only to tell nodes apart.
Nil == [k |-> "Nil"]

Program(stmts) == [k |-> "Program", stmts |-> stmts]
LetStatement(name, value) == [k |-> "Let", name |-> name, value |-> value]
MutStatement(name, value) == [k |-> "Mut", name |-> name, value |-> value]
AssignStatement(name, value) == [k |-> "Assign", name |-> name, value |-> value]
IndexAssignStatement(left, index, value) ==
    [k |-> "IndexAssign", left |-> left, index |-> index, value |-> value]
ExpressionStatement(e) == [k |-> "ExprStmt", expr |-> e]
BlockStatement(stmts) == [k |-> "Block", stmts |-> stmts]
ReturnStatement(values) == [k |-> "Return", values |-> values]
ElifClause(cond, cons) == [cond |-> cond, cons |-> cons]
IfStatement(cond, cons, elifs, alt) ==
    [k |-> "If", cond |-> cond, cons |-> cons, elifs |-> elifs, alt |-> alt]
LoopStatement(pos, cond, iterator, iterable, body) ==
    [k |-> "Loop", pos |-> pos, cond |-> cond, iterator |-> iterator,
     iterable |-> iterable, body |-> body]
BreakStatement == [k |-> "Break"]
ContinueStatement == [k |-> "Continue"]
FnDeclaration(name, params, body) ==
    [k |-> "FnDecl", name |-> name, params |-> params, body |-> body]
MatchArm(pattern, guard, body) == [pattern |-> pattern, guard |-> guard, body |-> body]
MatchStatement(pos, subject, arms) ==
    [k |-> "Match", pos |-> pos, subject |-> subject, arms |-> arms]
TestBlock(description, body) == [k |-> "Test", description |-> description, body |-> body]

IntegerLiteral(i) == [k |-> "Int", value |-> i]
FloatLiteral(halves) == [k |-> "Float", value |-> halves]
StringLiteral(s) == [k |-> "Str", value |-> s]
\* Parts alternate string literals and expressions.
StringInterpolation(parts) == [k |-> "Interp", parts |-> parts]
BooleanLiteral(b) == [k |-> "Bool", value |-> b]
NoneLiteral == [k |-> "None"]
Identifier(name) == [k |-> "Ident", name |-> name]
BinaryExpression(left, op, right) ==
    [k |-> "Binary", op |-> op, left |-> left, right |-> right]
UnaryExpression(op, operand) == [k |-> "Unary", op |-> op, operand |-> operand]
CallExpression(fn, args) == [k |-> "Call", fn |-> fn, args |-> args]
IndexExpression(left, index) == [k |-> "Index", left |-> left, index |-> index]
ArrayLiteral(elems) == [k |-> "Array", elems |-> elems]
FnLiteral(params, body) == [k |-> "FnLit", params |-> params, body |-> body]
RangeExpression(start, end, step) ==
    [k |-> "Range", start |-> start, end |-> end, step |-> step]
PipelineExpression(left, right) == [k |-> "Pipeline", left |-> left, right |-> right]
CoalesceExpression(left, right) == [k |-> "Coalesce", left |-> left, right |-> right]
MapLiteral(keys, values) == [k |-> "Map", keys |-> keys, values |-> values]
DotExpression(left, field) == [k |-> "Dot", left |-> left, field |-> field]
SafeAccessExpression(left, field) == [k |-> "SafeAccess", left |-> left, field |-> field]
WildcardExpression == [k |-> "Wildcard"]

\* ------------------------------------------------------------------------
\* Results of Eval: (Value, error)
\* ------------------------------------------------------------------------
\* sig is the dynamic type of the error: "ok" for nil, "runtime" for
\* *RuntimeError, "error" for a plain error of a built-in, "return", "break"
\* and "continue" for the three signals.  "hang" is the model's report that
\* the evaluation ran out of MaxIter loop entries.
Result(st, val, sig, msg, vals) ==
    [st |-> st, val |-> val, sig |-> sig, msg |-> msg, vals |-> vals]

Ok(st, val) == Result(st, val, "ok", "", <<>>)
RuntimeError(st, msg) == Result(st, NilValue, "runtime", msg, <<>>)
PlainError(st, msg) == Result(st, NilValue, "error", msg, <<>>)
ReturnSignal(st, vals) == Result(st, NilValue, "return", "return signal", vals)
BreakSignal(st) == Result(st, NilValue, "break", "break signal", <<>>)
ContinueSignal(st) == Result(st, NilValue, "continue", "continue signal", <<>>)
Hang(st) == Result(st, NilValue, "hang", "", <<>>)
\* return nil, err
Fail(r) == [r EXCEPT !.val = NilValue]

\* The evaluation's record of what it did, in order: loop and match steps.
Event(e, pos, i, v) == [e |-> e, pos |-> pos, i |-> i, v |-> v]
Log(st, e, pos, i, v) == [st EXCEPT !.trace = Append(@, Event(e, pos, i, v))]

\* &ArrayValue{Elements: elements} for a slice of capacity cap.
NewSlice(st, elements, cap) ==
    [st EXCEPT !.arrs = Append(@, elements),
               !.mem = Append(@, [elems |-> elements, cap |-> cap]),
               !.data = Append(@, Len(st.mem) + 1)]

\* make([]Value, n) has capacity n.
NewArray(st, elements) == NewSlice(st, elements, Len(elements))

\* The capacity append gives a full slice of capacity cap that gets one more
\* element (runtime.growslice, below 256 elements).
growslice(cap) == IF cap = 0 THEN 1 ELSE 2 * cap

\* The capacity of a slice built by n appends to an empty slice.
RECURSIVE appended(_)
appended(n) ==
    IF n = 0 THEN 0
    ELSE IF n - 1 < appended(n - 1) THEN appended(n - 1)
    ELSE growslice(appended(n - 1))

\* slice[i] = v: the slot of the backing array is written in place.
store(st, id, i, v) ==
    LET p == st.data[id]
        slots == st.mem[p].elems
    IN  [st EXCEPT !.mem[p].elems = IF i <= Len(slots) THEN [slots EXCEPT ![i] = v]
                                    ELSE Append(slots, v)]

\* append(slice, v): in place within the capacity, else into a new backing
\* array that holds a copy of the slice.
append(st, id, v) ==
    LET p == st.data[id]
        elements == st.arrs[id]
    IN  IF Len(elements) < st.mem[p].cap
        THEN [store(st, id, Len(elements) + 1, v) EXCEPT !.arrs[id] = Append(elements, v)]
        ELSE [st EXCEPT !.arrs[id] = Append(elements, v),
                        !.mem = Append(@, [elems |-> Append(elements, v),
                                           cap |-> growslice(st.mem[p].cap)]),
                        !.data[id] = Len(st.mem) + 1]

\* The slice header a range clause copies: the backing array and the length.
header(st, id) == [ptr |-> st.data[id], len |-> Len(st.arrs[id])]

\* fmt.Sprintf("%d", i)
RECURSIVE Sprintf_d(_)
Sprintf_d(i) ==
    IF i < 0 THEN "-" \o Sprintf_d(0 - i)
    ELSE IF i >= 10 THEN Sprintf_d(i \div 10) \o Sprintf_d(i % 10)
    ELSE <<"0", "1", "2", "3", "4", "5", "6", "7", "8", "9">>[i + 1]

\* fmt.Sprintf("%g", f) for a float of the model, below the size where %g
\* turns to an exponent.
Sprintf_g(halves) ==
    (IF halves < 0 THEN "-" ELSE "") \o Sprintf_d(Abs(halves) \div 2)
        \o (IF halves % 2 = 1 THEN ".5" ELSE "")

\* Value.String()
RECURSIVE Value_String(_, _)
Value_String(st, v) ==
    LET RECURSIVE elements(_, _)
        elements(xs, i) ==
            IF i > Len(xs) THEN ""
            ELSE (IF i > 1 THEN ", " ELSE "") \o Value_String(st, xs[i])
                     \o elements(xs, i + 1)
    IN  CASE v.t = "int" -> Sprintf_d(v.n)
          [] v.t = "float" -> Sprintf_g(v.n)
          [] v.t = "bool" -> IF v.n = 1 THEN "true" ELSE "false"
          [] v.t = "string" -> v.s
          [] v.t = "none" -> "none"
          [] v.t = "array" -> "[" \o elements(st.arrs[v.n], 1) \o "]"
          [] v.t = "fn" -> IF st.fns[v.n].name # "" THEN "<fn " \o st.fns[v.n].name \o ">"
                           ELSE "<fn>"
          [] v.t = "range" -> Sprintf_d(v.n) \o ".." \o Sprintf_d(v.m)
                                  \o (IF v.k # 1 THEN " step " \o Sprintf_d(v.k) ELSE "")
          [] v.t = "builtin" -> "<builtin " \o v.s \o ">"

\* ------------------------------------------------------------------------
\* Evaluator (evaluator.go): statements
\* ------------------------------------------------------------------------
RECURSIVE Eval(_, _, _)
RECURSIVE programLoop(_, _, _, _, _)
RECURSIVE blockLoop(_, _, _, _, _)
RECURSIVE elifLoop(_, _, _, _)
RECURSIVE conditionalLoop(_, _, _)
RECURSIVE arrayLoop(_, _, _, _, _)
RECURSIVE rangeLoop(_, _, _, _, _)
RECURSIVE armLoop(_, _, _, _, _)
RECURSIVE evalExpressions(_, _, _, _, _)
RECURSIVE callFunction(_, _, _)

\* for _, stmt := range program.Statements
programLoop(stmts, i, env, st, result) ==
    IF i > Len(stmts) THEN Ok(st, result)
    ELSE LET r == Eval(stmts[i], env, st)
         IN  IF r.sig # "ok" THEN Fail(r)
             ELSE programLoop(stmts, i + 1, env, r.st, r.val)

evalProgram(program, env, st) == programLoop(program.stmts, 1, env, st, NONE)

evalLetStatement(stmt, env, st) ==
    LET r == Eval(stmt.value, env, st)
    IN  IF r.sig # "ok" THEN Fail(r)
        ELSE LET d == Define(r.st, env, stmt.name, r.val, FALSE)
             IN  IF d.err # "" THEN RuntimeError(d.st, d.err) ELSE Ok(d.st, NONE)

evalMutStatement(stmt, env, st) ==
    LET r == Eval(stmt.value, env, st)
    IN  IF r.sig # "ok" THEN Fail(r)
        ELSE LET d == Define(r.st, env, stmt.name, r.val, TRUE)
             IN  IF d.err # "" THEN RuntimeError(d.st, d.err) ELSE Ok(d.st, NONE)

evalAssignStatement(stmt, env, st) ==
    LET r == Eval(stmt.value, env, st)
    IN  IF r.sig # "ok" THEN Fail(r)
        ELSE LET d == Set(r.st, env, stmt.name, r.val)
             IN  IF d.err # "" THEN RuntimeError(d.st, d.err) ELSE Ok(d.st, NONE)

\* An assignment to the index just past the end appends the value.
evalIndexAssignStatementGrows(stmt, env, st) ==
    LET l == Eval(stmt.left, env, st) IN
    IF l.sig # "ok" THEN Fail(l) ELSE
    LET x == Eval(stmt.index, env, l.st) IN
    IF x.sig # "ok" THEN Fail(x) ELSE
    LET v == Eval(stmt.value, env, x.st) IN
    IF v.sig # "ok" THEN Fail(v) ELSE
    IF l.val.t = "array"
    THEN IF x.val.t # "int" THEN RuntimeError(v.st, "array index must be an integer")
         ELSE IF x.val.n < 0 \/ x.val.n > Len(v.st.arrs[l.val.n])
         THEN RuntimeError(v.st, "index %d out of bounds (len %d)")
         ELSE IF x.val.n = Len(v.st.arrs[l.val.n])
         THEN Ok(append(v.st, l.val.n, v.val), NONE)
         ELSE Ok([store(v.st, l.val.n, x.val.n + 1, v.val)
                     EXCEPT !.arrs[l.val.n][x.val.n + 1] = v.val], NONE)
    ELSE RuntimeError(v.st, "cannot index into '%s'")

evalIndexAssignStatement(stmt, env, st) ==
    LET l == Eval(stmt.left, env, st) IN
    IF l.sig # "ok" THEN Fail(l) ELSE
    LET x == Eval(stmt.index, env, l.st) IN
    IF x.sig # "ok" THEN Fail(x) ELSE
    LET v == Eval(stmt.value, env, x.st) IN
    IF v.sig # "ok" THEN Fail(v) ELSE
    IF l.val.t = "array"
    THEN IF x.val.t # "int" THEN RuntimeError(v.st, "array index must be an integer")
         ELSE IF x.val.n < 0 \/ x.val.n >= Len(v.st.arrs[l.val.n])
         THEN RuntimeError(v.st, "index %d out of bounds (len %d)")
         ELSE Ok([store(v.st, l.val.n, x.val.n + 1, v.val)
                     EXCEPT !.arrs[l.val.n][x.val.n + 1] = v.val], NONE)
    ELSE RuntimeError(v.st, "cannot index into '%s'")

\* for _, stmt := range block.Statements
blockLoop(stmts, i, env, st, result) ==
    IF i > Len(stmts) THEN Ok(st, result)
    ELSE LET r == Eval(stmts[i], env, st)
         IN  IF r.sig # "ok" THEN Fail(r)
             ELSE blockLoop(stmts, i + 1, env, r.st, r.val)

\* The statements run in env itself: the function creates no scope.
evalBlockStatement(block, env, st) == blockLoop(block.stmts, 1, env, st, NONE)

evalReturnStatement(stmt, env, st) ==
    LET r == evalExpressions(stmt.values, 1, env, st, <<>>)
    IN  IF r.sig # "ok" THEN Fail(r) ELSE ReturnSignal(r.st, r.vals)

\* for _, elif := range stmt.ElifClauses, then the alternative
elifLoop(stmt, i, env, st) ==
    IF i > Len(stmt.elifs)
    THEN IF stmt.alt.k # "Nil" THEN Eval(stmt.alt, env, st) ELSE Ok(st, NONE)
    ELSE LET c == Eval(stmt.elifs[i].cond, env, st)
         IN  IF c.sig # "ok" THEN Fail(c)
             ELSE IF IsTruthy(c.st, c.val) THEN Eval(stmt.elifs[i].cons, env, c.st)
             ELSE elifLoop(stmt, i + 1, env, c.st)

evalIfStatement(stmt, env, st) ==
    LET c == Eval(stmt.cond, env, st)
    IN  IF c.sig # "ok" THEN Fail(c)
        ELSE IF IsTruthy(c.st, c.val) THEN Eval(stmt.cons, env, c.st)
        ELSE elifLoop(stmt, 1, env, c.st)

\* One loop body entry less is left to this evaluation.
Tick(st) == [st EXCEPT !.fuel = @ - 1]

\* The loop takes a break of its body for a continue.
conditionalLoopIgnoresBreak(stmt, env, st) ==
    LET hasCond == stmt.cond.k # "Nil"
        c == IF hasCond THEN Eval(stmt.cond, env, st) ELSE Ok(st, TRUEV)
    IN
    IF c.sig # "ok" THEN Fail(c) ELSE
    LET truthy == IsTruthy(c.st, c.val)
        st1 == IF hasCond
               THEN Log(c.st, "cond", stmt.pos, 0, IF truthy THEN 1 ELSE 0)
               ELSE c.st
    IN
    IF hasCond /\ ~truthy THEN Ok(st1, NONE)
    ELSE IF st1.fuel = 0 THEN Hang(st1)
    ELSE LET st2 == NewEnclosedEnvironment(Log(Tick(st1), "body", stmt.pos, 0, 0), env)
             b == Eval(stmt.body, Len(st2.envs), st2)
         IN  IF b.sig \in {"break", "continue"}
             THEN conditionalLoop(stmt, env, Log(b.st, "cont", stmt.pos, 0, 0))
             ELSE IF b.sig # "ok" THEN Fail(b)
             ELSE conditionalLoop(stmt, env, b.st)

\* The conditional or infinite loop: for { ... }
conditionalLoop(stmt, env, st) ==
    LET hasCond == stmt.cond.k # "Nil"
        c == IF hasCond THEN Eval(stmt.cond, env, st) ELSE Ok(st, TRUEV)
    IN
    IF c.sig # "ok" THEN Fail(c) ELSE
    LET truthy == IsTruthy(c.st, c.val)
        st1 == IF hasCond
               THEN Log(c.st, "cond", stmt.pos, 0, IF truthy THEN 1 ELSE 0)
               ELSE c.st
    IN
    IF hasCond /\ ~truthy THEN Ok(st1, NONE)
    ELSE IF st1.fuel = 0 THEN Hang(st1)
    ELSE LET st2 == NewEnclosedEnvironment(Log(Tick(st1), "body", stmt.pos, 0, 0), env)
             loopEnv == Len(st2.envs)
             b == Eval(stmt.body, loopEnv, st2)
         IN  IF b.sig = "break" THEN Ok(Log(b.st, "brk", stmt.pos, 0, 0), NONE)
             ELSE IF b.sig = "continue"
             THEN conditionalLoop(stmt, env, Log(b.st, "cont", stmt.pos, 0, 0))
             ELSE IF b.sig # "ok" THEN Fail(b)
             ELSE conditionalLoop(stmt, env, b.st)

\* for _, elem := range iter.Elements: elems is the slice the loop started
\* with, idx the 1-based position of the next element.
\* for _, elem := range iter.Elements: the range clause copies the slice
\* header elems, and each iteration reads its element from the backing array.
arrayLoop(stmt, elems, idx, env, st) ==
    IF idx > elems.len THEN Ok(st, NONE)
    ELSE IF st.fuel = 0 THEN Hang(st)
    ELSE LET st1 == NewEnclosedEnvironment(Log(st, "iter", stmt.pos, 0, idx - 1), env)
             loopEnv == Len(st1.envs)
             st2 == Define(st1, loopEnv, stmt.iterator,
                           st.mem[elems.ptr].elems[idx], FALSE).st
             b == Eval(stmt.body, loopEnv, Log(Tick(st2), "body", stmt.pos, 0, 0))
         IN  IF b.sig = "break" THEN Ok(Log(b.st, "brk", stmt.pos, 0, 0), NONE)
             ELSE IF b.sig = "continue"
             THEN arrayLoop(stmt, elems, idx + 1, env, Log(b.st, "cont", stmt.pos, 0, 0))
             ELSE IF b.sig # "ok" THEN Fail(b)
             ELSE arrayLoop(stmt, elems, idx + 1, env, b.st)

\* The loop hands a break or continue of its body on to its caller.
rangeLoopPassesSignal(stmt, iter, i, env, st) ==
    IF ~(i < iter.m) THEN Ok(st, NONE)
    ELSE IF st.fuel = 0 THEN Hang(st)
    ELSE LET st1 == NewEnclosedEnvironment(Log(st, "iter", stmt.pos, 0, i), env)
             loopEnv == Len(st1.envs)
             st2 == Define(st1, loopEnv, stmt.iterator, NewInt(i), FALSE).st
             b == Eval(stmt.body, loopEnv, Log(Tick(st2), "body", stmt.pos, 0, 0))
         IN  IF b.sig # "ok" THEN Fail(b)
             ELSE rangeLoop(stmt, iter, i + iter.k, env, b.st)

\* The loop ends on a continue as it does on a break.
rangeLoopContinueEnds(stmt, iter, i, env, st) ==
    IF ~(i < iter.m) THEN Ok(st, NONE)
    ELSE IF st.fuel = 0 THEN Hang(st)
    ELSE LET st1 == NewEnclosedEnvironment(Log(st, "iter", stmt.pos, 0, i), env)
             loopEnv == Len(st1.envs)
             st2 == Define(st1, loopEnv, stmt.iterator, NewInt(i), FALSE).st
             b == Eval(stmt.body, loopEnv, Log(Tick(st2), "body", stmt.pos, 0, 0))
         IN  IF b.sig = "break" THEN Ok(Log(b.st, "brk", stmt.pos, 0, 0), NONE)
             ELSE IF b.sig = "continue" THEN Ok(Log(b.st, "cont", stmt.pos, 0, 0), NONE)
             ELSE IF b.sig # "ok" THEN Fail(b)
             ELSE rangeLoop(stmt, iter, i + iter.k, env, b.st)

\* The loop runs every iteration in the scope that contains it.
RECURSIVE rangeLoopSharesScope(_, _, _, _, _)
rangeLoopSharesScope(stmt, iter, i, env, st) ==
    IF ~(i < iter.m) THEN Ok(st, NONE)
    ELSE IF st.fuel = 0 THEN Hang(st)
    ELSE LET st2 == Define(Log(st, "iter", stmt.pos, 0, i), env, stmt.iterator, NewInt(i),
                           FALSE).st
             b == Eval(stmt.body, env, Log(Tick(st2), "body", stmt.pos, 0, 0))
         IN  IF b.sig = "break" THEN Ok(Log(b.st, "brk", stmt.pos, 0, 0), NONE)
             ELSE IF b.sig = "continue"
             THEN rangeLoopSharesScope(stmt, iter, i + iter.k, env,
                                       Log(b.st, "cont", stmt.pos, 0, 0))
             ELSE IF b.sig # "ok" THEN Fail(b)
             ELSE rangeLoopSharesScope(stmt, iter, i + iter.k, env, b.st)

\* for i := iter.Start; i < iter.End; i += iter.Step
rangeLoop(stmt, iter, i, env, st) ==
    IF ~(i < iter.m) THEN Ok(st, NONE)
    ELSE IF st.fuel = 0 THEN Hang(st)
    ELSE LET st1 == NewEnclosedEnvironment(Log(st, "iter", stmt.pos, 0, i), env)
             loopEnv == Len(st1.envs)
             st2 == Define(st1, loopEnv, stmt.iterator, NewInt(i), FALSE).st
             b == Eval(stmt.body, loopEnv, Log(Tick(st2), "body", stmt.pos, 0, 0))
         IN  IF b.sig = "break" THEN Ok(Log(b.st, "brk", stmt.pos, 0, 0), NONE)
             ELSE IF b.sig = "continue"
             THEN rangeLoop(stmt, iter, i + iter.k, env, Log(b.st, "cont", stmt.pos, 0, 0))
             ELSE IF b.sig # "ok" THEN Fail(b)
             ELSE rangeLoop(stmt, iter, i + iter.k, env, b.st)

evalForInLoop(stmt, iterable, env, st) ==
    CASE iterable.t = "array" -> arrayLoop(stmt, header(st, iterable.n), 1, env, st)
      [] iterable.t = "range" -> rangeLoop(stmt, iterable, iterable.n, env, st)
      [] OTHER -> RuntimeError(st, "cannot iterate over '%s'")

evalLoopStatement(stmt, env, st) ==
    IF stmt.iterator # ""
    THEN LET r == Eval(stmt.iterable, env, Log(st, "loop", stmt.pos, 0, 0))
         IN  IF r.sig # "ok" THEN Fail(r)
             ELSE evalForInLoop(stmt, r.val, env, r.st)
    ELSE conditionalLoop(stmt, env, Log(st, "loop", stmt.pos, 0, 0))

\* The closure is a new heap object that points to env.
evalFnDeclaration(stmt, env, st) ==
    LET st1 == [st EXCEPT !.fns = Append(@, [name |-> stmt.name, params |-> stmt.params,
                                             body |-> stmt.body, env |-> env])]
        fn == FnRef(Len(st1.fns))
    IN  Ok(Define(st1, env, stmt.name, fn, FALSE).st, NONE)

\* (bool, error): val is the bool.
matchPattern(pattern, subject, env, st) ==
    CASE pattern.k = "Wildcard" -> Ok(st, TRUEV)
      [] pattern.k = "Int" ->
            Ok(st, NewBool(subject.t = "int" /\ subject.n = pattern.value))
      [] pattern.k = "Str" ->
            Ok(st, NewBool(subject.t = "string" /\ subject.s = pattern.value))
      [] pattern.k = "Bool" ->
            Ok(st, NewBool(subject.t = "bool" /\ (subject.n = 1) = pattern.value))
      [] pattern.k = "None" -> Ok(st, NewBool(subject.t = "none"))
      [] pattern.k = "Range" ->
            LET s == Eval(pattern.start, env, st) IN
            IF s.sig # "ok" THEN Fail(s) ELSE
            LET e == Eval(pattern.end, env, s.st) IN
            IF e.sig # "ok" THEN Fail(e) ELSE
            IF subject.t # "int" THEN Ok(e.st, FALSEV)
            ELSE IF s.val.t # "int" \/ e.val.t # "int" THEN Ok(e.st, FALSEV)
            ELSE Ok(e.st, NewBool(subject.n >= s.val.n /\ subject.n < e.val.n))
      [] pattern.k = "Ident" ->
            Ok(Define(st, env, pattern.name, subject, FALSE).st, TRUEV)
      [] OTHER -> Ok(st, FALSEV)

\* An arm whose pattern matches is taken whatever its guard says.
armLoopIgnoresGuard(stmt, i, subject, env, st) ==
    IF i > Len(stmt.arms) THEN Ok(st, NONE) ELSE
    LET arm == stmt.arms[i]
        m == matchPattern(arm.pattern, subject, env, st)
    IN
    IF m.sig # "ok" THEN Fail(m) ELSE
    LET st1 == Log(m.st, "pat", stmt.pos, i, m.val.n) IN
    IF m.val.n # 1 THEN armLoop(stmt, i + 1, subject, env, st1)
    ELSE Eval(arm.body, env, Log(st1, "arm", stmt.pos, i, 0))

\* for _, arm := range stmt.Arms
armLoop(stmt, i, subject, env, st) ==
    IF i > Len(stmt.arms) THEN Ok(st, NONE) ELSE
    LET arm == stmt.arms[i]
        m == matchPattern(arm.pattern, subject, env, st)
    IN
    IF m.sig # "ok" THEN Fail(m) ELSE
    LET st1 == Log(m.st, "pat", stmt.pos, i, m.val.n) IN
    IF m.val.n # 1 THEN armLoop(stmt, i + 1, subject, env, st1)
    ELSE IF arm.guard.k # "Nil"
    THEN LET g == Eval(arm.guard, env, st1) IN
         IF g.sig # "ok" THEN Fail(g) ELSE
         LET truthy == IsTruthy(g.st, g.val)
             st2 == Log(g.st, "guard", stmt.pos, i, IF truthy THEN 1 ELSE 0)
         IN  IF ~truthy THEN armLoop(stmt, i + 1, subject, env, st2)
             ELSE Eval(arm.body, env, Log(st2, "arm", stmt.pos, i, 0))
    ELSE Eval(arm.body, env, Log(st1, "arm", stmt.pos, i, 0))

evalMatchStatement(stmt, env, st) ==
    LET s == Eval(stmt.subject, env, st)
    IN  IF s.sig # "ok" THEN Fail(s)
        ELSE armLoop(stmt, 1, s.val, env, Log(s.st, "match", stmt.pos, 0, 0))

\* ------------------------------------------------------------------------
\* Evaluator (evaluator.go): expressions
\* ------------------------------------------------------------------------
evalIdentifier(node, env, st) ==
    LET g == Get(st, env, node.name)
    IN  IF ~g.ok THEN RuntimeError(st, "undefined variable '%s'") ELSE Ok(st, g.value)

evalIntBinaryOp(st, op, left, right) ==
    CASE op = "+" -> Ok(st, NewInt(left + right))
      [] op = "-" -> Ok(st, NewInt(left - right))
      [] op = "*" -> Ok(st, NewInt(left * right))
      [] op = "/" -> IF right = 0 THEN RuntimeError(st, "division by zero")
                     ELSE Ok(st, NewInt(GoDiv(left, right)))
      [] op = "%" -> IF right = 0 THEN RuntimeError(st, "modulo by zero")
                     ELSE Ok(st, NewInt(GoMod(left, right)))
      [] op = "<" -> Ok(st, NewBool(left < right))
      [] op = ">" -> Ok(st, NewBool(left > right))
      [] op = "<=" -> Ok(st, NewBool(left <= right))
      [] op = ">=" -> Ok(st, NewBool(left >= right))
      [] op = "==" -> Ok(st, NewBool(left = right))
      [] op = "!=" -> Ok(st, NewBool(left # right))
      [] OTHER -> RuntimeError(st, "unknown operator '%s' for int")

\* left and right in halves.  Sums, differences and comparisons stay within
\* the multiples of 0.5; products and quotients do not and are left out.
evalFloatBinaryOp(st, op, left, right) ==
    CASE op = "+" -> Ok(st, NewFloat(left + right))
      [] op = "-" -> Ok(st, NewFloat(left - right))
      [] op = "/" /\ right = 0 -> RuntimeError(st, "division by zero")
      [] op = "<" -> Ok(st, NewBool(left < right))
      [] op = ">" -> Ok(st, NewBool(left > right))
      [] op = "<=" -> Ok(st, NewBool(left <= right))
      [] op = ">=" -> Ok(st, NewBool(left >= right))
      [] op = "==" -> Ok(st, NewBool(left = right))
      [] op = "!=" -> Ok(st, NewBool(left # right))
      [] op \notin {"+", "-", "*", "/", "<", ">", "<=", ">=", "==", "!="} ->
            RuntimeError(st, "unknown operator '%s' for float")

\* Both operands are evaluated before the operator is looked at.
evalBinaryExpressionEager(node, env, st) ==
    LET l == Eval(node.left, env, st) IN
    IF l.sig # "ok" THEN Fail(l) ELSE
    LET r == Eval(node.right, env, l.st) IN
    IF r.sig # "ok" THEN Fail(r)
    ELSE IF node.op = "&&" THEN IF ~IsTruthy(r.st, l.val) THEN Ok(r.st, l.val) ELSE r
    ELSE IF node.op = "||" THEN IF IsTruthy(r.st, l.val) THEN Ok(r.st, l.val) ELSE r
    ELSE IF l.val.t = "int" /\ r.val.t = "int"
    THEN evalIntBinaryOp(r.st, node.op, l.val.n, r.val.n)
    ELSE RuntimeError(r.st, "unsupported operator '%s' for types '%s' and '%s'")

evalBinaryExpression(node, env, st) ==
    LET l == Eval(node.left, env, st) IN
    IF l.sig # "ok" THEN Fail(l)
    ELSE IF node.op = "&&"
    THEN IF ~IsTruthy(l.st, l.val) THEN l ELSE Eval(node.right, env, l.st)
    ELSE IF node.op = "||"
    THEN IF IsTruthy(l.st, l.val) THEN l ELSE Eval(node.right, env, l.st)
    ELSE
    LET r == Eval(node.right, env, l.st) IN
    IF r.sig # "ok" THEN Fail(r)
    ELSE IF l.val.t = "int" /\ r.val.t = "int"
    THEN evalIntBinaryOp(r.st, node.op, l.val.n, r.val.n)
    ELSE IF l.val.t = "int" /\ r.val.t = "float"
    THEN evalFloatBinaryOp(r.st, node.op, 2 * l.val.n, r.val.n)
    ELSE IF l.val.t = "float"
    THEN IF r.val.t = "float" THEN evalFloatBinaryOp(r.st, node.op, l.val.n, r.val.n)
         ELSE IF r.val.t = "int" THEN evalFloatBinaryOp(r.st, node.op, l.val.n, 2 * r.val.n)
         ELSE RuntimeError(r.st, "cannot apply '%s' to float and %s")
    ELSE IF l.val.t = "string" /\ r.val.t = "string" /\ node.op = "+"
    THEN Ok(r.st, NewString(l.val.s \o r.val.s))
    ELSE IF node.op = "==" THEN Ok(r.st, NewBool(Equals(r.st, l.val, r.val)))
    ELSE IF node.op = "!=" THEN Ok(r.st, NewBool(~Equals(r.st, l.val, r.val)))
    ELSE RuntimeError(r.st, "unsupported operator '%s' for types '%s' and '%s'")

evalUnaryExpression(node, env, st) ==
    LET o == Eval(node.operand, env, st) IN
    IF o.sig # "ok" THEN Fail(o)
    ELSE CASE node.op = "-" ->
                IF o.val.t = "int" THEN Ok(o.st, NewInt(-o.val.n))
                ELSE IF o.val.t = "float" THEN Ok(o.st, NewFloat(-o.val.n))
                ELSE RuntimeError(o.st, "cannot negate '%s'")
           [] node.op = "!" -> Ok(o.st, NewBool(~IsTruthy(o.st, o.val)))
           [] OTHER -> RuntimeError(o.st, "unknown unary operator '%s'")

\* Evaluates exprs[i..] left to right; vals collects the values.
evalExpressions(exprs, i, env, st, acc) ==
    IF i > Len(exprs) THEN Result(st, NONE, "ok", "", acc)
    ELSE LET r == Eval(exprs[i], env, st)
         IN  IF r.sig # "ok" THEN Fail(r)
             ELSE evalExpressions(exprs, i + 1, env, r.st, Append(acc, r.val))

evalCallExpression(node, env, st) ==
    LET f == Eval(node.fn, env, st) IN
    IF f.sig # "ok" THEN Fail(f) ELSE
    LET a == evalExpressions(node.args, 1, env, f.st, <<>>) IN
    IF a.sig # "ok" THEN Fail(a) ELSE callFunction(f.val, a.vals, a.st)

\* ------------------------------------------------------------------------
\* Built-in functions (builtins.go)
\* ------------------------------------------------------------------------
builtinPrint(args, st) == Ok(st, NONE)

builtinLen(args, st) ==
    IF Len(args) # 1 THEN PlainError(st, "len() takes exactly 1 argument, got %d")
    ELSE CASE args[1].t = "array" -> Ok(st, NewInt(Len(st.arrs[args[1].n])))
           [] args[1].t = "range" -> Ok(st, NewInt(RangeLen(args[1])))
           [] args[1].t \notin {"array", "range", "string"} ->
                PlainError(st, "len() not supported for type '%s'")

builtinPush(args, st) ==
    IF Len(args) # 2 THEN PlainError(st, "push() takes 2 arguments (array, value), got %d")
    ELSE IF args[1].t # "array"
    THEN PlainError(st, "push() first argument must be an array, got '%s'")
    ELSE Ok(append(st, args[1].n, args[2]), args[1])

builtinPop(args, st) ==
    IF Len(args) # 1 THEN PlainError(st, "pop() takes 1 argument, got %d")
    ELSE IF args[1].t # "array"
    THEN PlainError(st, "pop() argument must be an array, got '%s'")
    ELSE IF Len(st.arrs[args[1].n]) = 0 THEN PlainError(st, "pop() on empty array")
    ELSE LET elems == st.arrs[args[1].n]
         IN  Ok([st EXCEPT !.arrs[args[1].n] = SubSeq(elems, 1, Len(elems) - 1)],
                elems[Len(elems)])

builtinAssert(args, st) ==
    IF Len(args) < 1 THEN PlainError(st, "assert() takes at least 1 argument")
    ELSE IF ~IsTruthy(st, args[1])
    THEN PlainError(st, IF Len(args) >= 2 THEN Value_String(st, args[2])
                        ELSE "assertion failed")
    ELSE Ok(st, NONE)

builtinArray(args, st) ==
    LET r == args[1]
        RECURSIVE elementLoop(_, _, _)
        \* for i := r.Start; i < r.End; i += r.Step
        elementLoop(i, elements, h) ==
            \* elements := make([]Value, 0, r.Len())
            IF ~(i < r.m) THEN LET h1 == NewSlice(h, elements, RangeLen(r))
                               IN  Ok(h1, ArrayRef(Len(h1.arrs)))
            ELSE IF h.fuel = 0 THEN Hang(h)
            ELSE elementLoop(i + r.k, Append(elements, NewInt(i)), Tick(h))
    IN  IF Len(args) # 1 THEN PlainError(st, "array() takes 1 argument, got %d")
        ELSE IF r.t # "range"
        THEN PlainError(st, "array() argument must be a range, got '%s'")
        ELSE elementLoop(r.n, <<>>, st)

\* ------------------------------------------------------------------------
\* Higher-order built-in functions (builtins_ho.go)
\* ------------------------------------------------------------------------
builtinFilter(args, st) ==
    LET fn == args[2]
        RECURSIVE elementLoop(_, _, _, _)
        \* for _, elem := range arr.Elements
        elementLoop(elems, i, result, h) ==
            IF i > elems.len
            THEN LET h1 == NewSlice(h, result, appended(Len(result)))
                 IN  Ok(h1, ArrayRef(Len(h1.arrs)))
            ELSE LET elem == h.mem[elems.ptr].elems[i]
                     res == callFunction(fn, <<elem>>, h)
                 IN  IF res.sig # "ok" THEN Fail(res)
                     ELSE elementLoop(elems, i + 1,
                                      IF IsTruthy(res.st, res.val) THEN Append(result, elem)
                                      ELSE result,
                                      res.st)
    IN  IF Len(args) # 2 THEN PlainError(st, "filter expects 2 arguments (array, fn), got %d")
        ELSE IF args[1].t # "array"
        THEN PlainError(st, "filter: first argument must be an array, got %s")
        ELSE IF fn.t \notin {"fn", "builtin"}
        THEN PlainError(st, "filter: second argument must be a function, got %s")
        ELSE elementLoop(header(st, args[1].n), 1, <<>>, st)

builtinMap(args, st) ==
    LET fn == args[2]
        RECURSIVE elementLoop(_, _, _, _)
        \* for i, elem := range arr.Elements
        elementLoop(elems, i, result, h) ==
            IF i > elems.len THEN LET h1 == NewArray(h, result)
                                  IN  Ok(h1, ArrayRef(Len(h1.arrs)))
            ELSE LET res == callFunction(fn, <<h.mem[elems.ptr].elems[i]>>, h)
                 IN  IF res.sig # "ok" THEN Fail(res)
                     ELSE elementLoop(elems, i + 1, Append(result, res.val), res.st)
    IN  IF Len(args) # 2 THEN PlainError(st, "map expects 2 arguments (array, fn), got %d")
        ELSE IF args[1].t # "array"
        THEN PlainError(st, "map: first argument must be an array, got %s")
        ELSE IF fn.t \notin {"fn", "builtin"}
        THEN PlainError(st, "map: second argument must be a function, got %s")
        ELSE elementLoop(header(st, args[1].n), 1, <<>>, st)

\* f.Fn(args) for the built-in registered under name.
callBuiltin(name, args, st) ==
    CASE name = "print" -> builtinPrint(args, st)
      [] name = "len" -> builtinLen(args, st)
      [] name = "push" -> builtinPush(args, st)
      [] name = "pop" -> builtinPop(args, st)
      [] name = "assert" -> builtinAssert(args, st)
      [] name = "array" -> builtinArray(args, st)
      [] name = "filter" -> builtinFilter(args, st)
      [] name = "map" -> builtinMap(args, st)

BuiltinNames ==
    <<"print", "len", "push", "pop", "type", "str", "int", "float", "input",
      "assert", "array">>

RECURSIVE registerFrom(_, _, _, _)
registerFrom(names, i, env, st) ==
    IF i > Len(names) THEN st
    ELSE registerFrom(names, i + 1, env,
                      Define(st, env, names[i], BuiltinFn(names[i]), FALSE).st)

RegisterBuiltins(st, env) == registerFrom(BuiltinNames, 1, env, st)

\* ------------------------------------------------------------------------
\* Evaluator (evaluator.go): calls and the remaining expressions
\* ------------------------------------------------------------------------
RECURSIVE defineParams(_, _, _, _, _)
\* The parameters are bound as mutable variables.
defineParamsMutable(st, fnEnv, params, args, i) ==
    IF i > Len(params) THEN st
    ELSE defineParams(Define(st, fnEnv, params[i], args[i], TRUE).st,
                      fnEnv, params, args, i + 1)

\* for i, param := range f.Params { fnEnv.Define(param, args[i], false) }
defineParams(st, fnEnv, params, args, i) ==
    IF i > Len(params) THEN st
    ELSE defineParams(Define(st, fnEnv, params[i], args[i], FALSE).st,
                      fnEnv, params, args, i + 1)

\* A single returned value is wrapped in an array like several are.
callFunctionAlwaysArray(fn, args, st) ==
    CASE fn.t = "fn" ->
            LET f == st.fns[fn.n] IN
            IF Len(args) # Len(f.params)
            THEN RuntimeError(st, "%s() takes %d arguments, got %d")
            ELSE LET st1 == NewEnclosedEnvironment(st, f.env)
                     fnEnv == Len(st1.envs)
                     st2 == defineParams(st1, fnEnv, f.params, args, 1)
                     r == Eval(f.body, fnEnv, st2)
                 IN  IF r.sig = "return"
                     THEN IF Len(r.vals) = 0 THEN Ok(r.st, NONE)
                          ELSE LET st3 == NewArray(r.st, r.vals)
                               IN  Ok(st3, ArrayRef(Len(st3.arrs)))
                     ELSE IF r.sig # "ok" THEN Fail(r)
                     ELSE r
      [] fn.t = "builtin" -> callBuiltin(fn.s, args, st)
      [] OTHER -> RuntimeError(st, "'%s' is not callable")

\* The call takes a break or continue of the body for the body's end.
callFunctionConsumesSignals(fn, args, st) ==
    CASE fn.t = "fn" ->
            LET f == st.fns[fn.n] IN
            IF Len(args) # Len(f.params)
            THEN RuntimeError(st, "%s() takes %d arguments, got %d")
            ELSE LET st1 == NewEnclosedEnvironment(st, f.env)
                     fnEnv == Len(st1.envs)
                     st2 == defineParams(st1, fnEnv, f.params, args, 1)
                     r == Eval(f.body, fnEnv, st2)
                 IN  IF r.sig = "return"
                     THEN IF Len(r.vals) = 0 THEN Ok(r.st, NONE)
                          ELSE IF Len(r.vals) = 1 THEN Ok(r.st, r.vals[1])
                          ELSE LET st3 == NewArray(r.st, r.vals)
                               IN  Ok(st3, ArrayRef(Len(st3.arrs)))
                     ELSE IF r.sig \in {"break", "continue"} THEN Ok(r.st, NONE)
                     ELSE IF r.sig # "ok" THEN Fail(r)
                     ELSE r
      [] fn.t = "builtin" -> callBuiltin(fn.s, args, st)
      [] OTHER -> RuntimeError(st, "'%s' is not callable")

callFunction(fn, args, st) ==
    CASE fn.t = "fn" ->
            LET f == st.fns[fn.n] IN
            IF Len(args) # Len(f.params)
            THEN RuntimeError(st, "%s() takes %d arguments, got %d")
            ELSE LET st1 == NewEnclosedEnvironment(st, f.env)
                     fnEnv == Len(st1.envs)
                     st2 == defineParams(st1, fnEnv, f.params, args, 1)
                 IN  IF f.body.k # "Block" THEN RuntimeError(st2, "invalid function body")
                     ELSE LET r == Eval(f.body, fnEnv, st2) IN
                          IF r.sig = "return"
                          THEN IF Len(r.vals) = 0 THEN Ok(r.st, NONE)
                               ELSE IF Len(r.vals) = 1 THEN Ok(r.st, r.vals[1])
                               ELSE LET st3 == NewArray(r.st, r.vals)
                                    IN  Ok(st3, ArrayRef(Len(st3.arrs)))
                          ELSE IF r.sig # "ok" THEN Fail(r)
                          ELSE r
      [] fn.t = "builtin" -> callBuiltin(fn.s, args, st)
      [] OTHER -> RuntimeError(st, "'%s' is not callable")

evalIndexExpression(node, env, st) ==
    LET l == Eval(node.left, env, st) IN
    IF l.sig # "ok" THEN Fail(l) ELSE
    LET x == Eval(node.index, env, l.st) IN
    IF x.sig # "ok" THEN Fail(x) ELSE
    CASE l.val.t = "array" ->
            IF x.val.t # "int" THEN RuntimeError(x.st, "array index must be an integer")
            ELSE IF x.val.n < 0 \/ x.val.n >= Len(x.st.arrs[l.val.n])
            THEN RuntimeError(x.st, "index %d out of bounds (len %d)")
            ELSE Ok(x.st, x.st.arrs[l.val.n][x.val.n + 1])
      [] l.val.t = "range" ->
            IF x.val.t # "int" THEN RuntimeError(x.st, "range index must be an integer")
            ELSE IF x.val.n < 0 \/ x.val.n >= RangeLen(l.val)
            THEN RuntimeError(x.st, "range index %d out of bounds")
            ELSE Ok(x.st, NewInt(RangeAt(l.val, x.val.n)))
      [] l.val.t \notin {"array", "range", "string"} ->
            RuntimeError(x.st, "cannot index into '%s'")

evalArrayLiteral(node, env, st) ==
    LET r == evalExpressions(node.elems, 1, env, st, <<>>) IN
    IF r.sig # "ok" THEN Fail(r)
    ELSE LET st1 == NewArray(r.st, r.vals) IN Ok(st1, ArrayRef(Len(st1.arrs)))

\* The closure keeps a copy of the scope as it is now instead of the scope.
evalFnLiteralSnapshot(node, env, st) ==
    LET st1 == [st EXCEPT !.envs = Append(@, st.envs[env])]
        st2 == [st1 EXCEPT !.fns = Append(@, [name |-> "", params |-> node.params,
                                               body |-> node.body,
                                               env |-> Len(st1.envs)])]
    IN  Ok(st2, FnRef(Len(st2.fns)))

evalFnLiteral(node, env, st) ==
    LET st1 == [st EXCEPT !.fns = Append(@, [name |-> "", params |-> node.params,
                                             body |-> node.body, env |-> env])]
    IN  Ok(st1, FnRef(Len(st1.fns)))

evalRangeExpression(node, env, st) ==
    LET s == Eval(node.start, env, st) IN
    IF s.sig # "ok" THEN Fail(s) ELSE
    LET e == Eval(node.end, env, s.st) IN
    IF e.sig # "ok" THEN Fail(e)
    ELSE IF s.val.t # "int" \/ e.val.t # "int"
    THEN RuntimeError(e.st, "range bounds must be integers")
    ELSE IF node.step.k # "Nil"
    THEN LET p == Eval(node.step, env, e.st) IN
         IF p.sig # "ok" THEN Fail(p)
         ELSE IF p.val.t # "int" THEN RuntimeError(p.st, "range step must be an integer")
         ELSE Ok(p.st, RangeValue(s.val.n, e.val.n, p.val.n))
    ELSE Ok(e.st, RangeValue(s.val.n, e.val.n, 1))

\* The piped value is passed after the written arguments.
evalPipelineExpressionLast(node, env, st) ==
    LET l == Eval(node.left, env, st) IN
    IF l.sig # "ok" THEN Fail(l) ELSE
    LET f == Eval(node.right.fn, env, l.st) IN
    IF f.sig # "ok" THEN Fail(f) ELSE
    LET a == evalExpressions(node.right.args, 1, env, f.st, <<>>) IN
    IF a.sig # "ok" THEN Fail(a) ELSE callFunction(f.val, Append(a.vals, l.val), a.st)

evalPipelineExpression(node, env, st) ==
    LET l == Eval(node.left, env, st) IN
    IF l.sig # "ok" THEN Fail(l) ELSE
    LET f == Eval(node.right.fn, env, l.st) IN
    IF f.sig # "ok" THEN Fail(f) ELSE
    LET a == evalExpressions(node.right.args, 1, env, f.st, <<l.val>>) IN
    IF a.sig # "ok" THEN Fail(a) ELSE callFunction(f.val, a.vals, a.st)

evalCoalesceExpression(node, env, st) ==
    LET l == Eval(node.left, env, st) IN
    IF l.sig # "ok" THEN Fail(l)
    ELSE IF l.val.t # "none" THEN l
    ELSE Eval(node.right, env, l.st)

evalStringInterpolation(node, env, st) ==
    LET RECURSIVE partLoop(_, _, _)
        partLoop(i, h, result) ==
            IF i > Len(node.parts) THEN Ok(h, NewString(result))
            ELSE LET val == Eval(node.parts[i], env, h)
                 IN  IF val.sig # "ok" THEN Fail(val)
                     ELSE partLoop(i + 1, val.st, result \o Value_String(val.st, val.val))
    IN  partLoop(1, st, "")

Eval(node, env, st) ==
    CASE node.k = "Program" -> evalProgram(node, env, st)
      [] node.k = "Let" -> evalLetStatement(node, env, st)
      [] node.k = "Mut" -> evalMutStatement(node, env, st)
      [] node.k = "Assign" -> evalAssignStatement(node, env, st)
      [] node.k = "IndexAssign" -> evalIndexAssignStatement(node, env, st)
      [] node.k = "ExprStmt" -> Eval(node.expr, env, st)
      [] node.k = "Block" -> evalBlockStatement(node, env, st)
      [] node.k = "Return" -> evalReturnStatement(node, env, st)
      [] node.k = "If" -> evalIfStatement(node, env, st)
      [] node.k = "Loop" -> evalLoopStatement(node, env, st)
      [] node.k = "Break" -> BreakSignal(st)
      [] node.k = "Continue" -> ContinueSignal(st)
      [] node.k = "FnDecl" -> evalFnDeclaration(node, env, st)
      [] node.k = "Match" -> evalMatchStatement(node, env, st)
      [] node.k = "Test" -> Ok(st, NONE)
      [] node.k = "Int" -> Ok(st, NewInt(node.value))
      [] node.k = "Float" -> Ok(st, NewFloat(node.value))
      [] node.k = "Str" -> Ok(st, NewString(node.value))
      [] node.k = "Bool" -> Ok(st, NewBool(node.value))
      [] node.k = "None" -> Ok(st, NONE)
      [] node.k = "Ident" -> evalIdentifier(node, env, st)
      [] node.k = "Binary" -> evalBinaryExpression(node, env, st)
      [] node.k = "Unary" -> evalUnaryExpression(node, env, st)
      [] node.k = "Call" -> evalCallExpression(node, env, st)
      [] node.k = "Index" -> evalIndexExpression(node, env, st)
      [] node.k = "Array" -> evalArrayLiteral(node, env, st)
      [] node.k = "FnLit" -> evalFnLiteral(node, env, st)
      [] node.k = "Range" -> evalRangeExpression(node, env, st)
      [] node.k = "Pipeline" -> evalPipelineExpression(node, env, st)
      [] node.k = "Coalesce" -> evalCoalesceExpression(node, env, st)
      [] node.k = "Interp" -> evalStringInterpolation(node, env, st)
      [] node.k \in {"Nil", "Wildcard"} -> RuntimeError(st, "unknown node type: %T")

\* ------------------------------------------------------------------------
\* Test runner (evaluator.go)
\* ------------------------------------------------------------------------
\* err.Error(), without the position that a RuntimeError may carry.
Error(r) == IF r.sig = "runtime" THEN "runtime error: " \o r.msg ELSE r.msg

TestResult(name, passed, error) == [Name |-> name, Passed |-> passed, Error |-> error]

NoRunner == [phase |-> "none"]

\* RunTests(program, env) up to its first loop; i is the statement that the
\* loop under way is at.
RunTests_New(src, program, env) ==
    [phase |-> "statements", src |-> src, program |-> program, env |-> env, i |-> 1,
     results |-> <<>>]

\* An iteration of the first loop that ends the loop when the statement
\* fails.
evalStatementsStopsAtFailure(t, st) ==
    LET stmt == t.program.stmts[t.i]
        r == IF stmt.k = "Test" THEN Ok(st, NONE) ELSE Eval(stmt, t.env, st)
    IN  [t |-> [t EXCEPT !.i = IF r.sig = "ok" THEN @ + 1 ELSE Len(t.program.stmts) + 1],
         r |-> r]

\* One iteration of the first loop of RunTests: a statement that is not a
\* test block is evaluated in env and its result dropped.
evalStatements(t, st) ==
    LET stmt == t.program.stmts[t.i]
    IN  [t |-> [t EXCEPT !.i = @ + 1],
         r |-> IF stmt.k = "Test" THEN Ok(st, NONE) ELSE Eval(stmt, t.env, st)]

\* An iteration of the second loop that evaluates the body in env itself.
runTestBlocksSharesScope(t, st) ==
    LET stmt == t.program.stmts[t.i]
        r == Eval(stmt.body, t.env, NewEnclosedEnvironment(st, t.env))
    IN  IF stmt.k # "Test" THEN [t |-> [t EXCEPT !.i = @ + 1], r |-> Ok(st, NONE)]
        ELSE [t |-> [t EXCEPT !.i = @ + 1,
                              !.results = Append(@, TestResult(stmt.description, r.sig = "ok",
                                                               IF r.sig # "ok" THEN Error(r)
                                                               ELSE ""))],
              r |-> r]

\* One iteration of the second loop of RunTests: a test block's body is
\* evaluated in a new child of env and its result recorded.
runTestBlocks(t, st) ==
    LET stmt == t.program.stmts[t.i]
        st1 == NewEnclosedEnvironment(st, t.env)
        testEnv == Len(st1.envs)
        r == Eval(stmt.body, testEnv, st1)
    IN  IF stmt.k # "Test" THEN [t |-> [t EXCEPT !.i = @ + 1], r |-> Ok(st, NONE)]
        ELSE [t |-> [t EXCEPT !.i = @ + 1,
                              !.results = Append(@, TestResult(stmt.description, r.sig = "ok",
                                                               IF r.sig # "ok" THEN Error(r)
                                                               ELSE ""))],
              r |-> r]

\* ------------------------------------------------------------------------
\* Sources: the input texts, and the AST the parser returns for each
\* ------------------------------------------------------------------------
\* A source is named by a descriptor [f, id, a, b]: f the shape of the text,
\* id an identifier in it, a and b integer literals in it.
Src3(f, id, a, b, c) == [f |-> f, id |-> id, a |-> a, b |-> b, c |-> c]
Src(f, id, a, b) == Src3(f, id, a, b, 0)

Block1(s) == BlockStatement(<<s>>)
If1(cond, cons) == IfStatement(cond, cons, <<>>, Nil)
Lit(i) == IntegerLiteral(i)
Id(n) == Identifier(n)
Bin(l, op, r) == BinaryExpression(l, op, r)
Range2(a, b) == RangeExpression(Lit(a), Lit(b), Nil)
ForIn(pos, it, iterable, body) == LoopStatement(pos, Nil, it, iterable, body)
While(pos, cond, body) == LoopStatement(pos, cond, "", Nil, body)
Forever(pos, body) == LoopStatement(pos, Nil, "", Nil, body)
Call0(fn) == CallExpression(fn, <<>>)

ParseScope(src) ==
    CASE src.f = "let" ->        \* let x = 1
            <<LetStatement(src.id, Lit(src.a))>>
      [] src.f = "mut" ->        \* mut x = 1
            <<MutStatement(src.id, Lit(src.a))>>
      [] src.f = "assign" ->     \* x = 2
            <<AssignStatement(src.id, Lit(src.a))>>
      [] src.f = "ifassign" ->   \* if true { x = 3 }
            <<If1(BooleanLiteral(TRUE), Block1(AssignStatement(src.id, Lit(src.a))))>>
      [] src.f = "callassign" -> \* fn() { x = 4 }()
            <<ExpressionStatement(Call0(
                FnLiteral(<<>>, Block1(AssignStatement(src.id, Lit(src.a))))))>>
      [] src.f = "loopassign" -> \* loop i in 0..1 { x = 5 }
            <<ForIn(1, "i", Range2(0, 1), Block1(AssignStatement(src.id, Lit(src.a))))>>
      [] src.f = "iflet" ->      \* if true { let y = 6 }
            <<If1(BooleanLiteral(TRUE), Block1(LetStatement(src.id, Lit(src.a))))>>
      [] src.f = "ifmut" ->      \* if true { mut x = 7 }
            <<If1(BooleanLiteral(TRUE), Block1(MutStatement(src.id, Lit(src.a))))>>
      [] src.f = "elselet" ->    \* if false { } else { let y = 8 }
            <<IfStatement(BooleanLiteral(FALSE), BlockStatement(<<>>), <<>>,
                          Block1(LetStatement(src.id, Lit(src.a))))>>
      [] src.f = "read" ->       \* x
            <<ExpressionStatement(Id(src.id))>>
      [] src.f = "letassign" ->  \* let x = 5  x = 10          (TestImmutability)
            <<LetStatement(src.id, Lit(src.a)), AssignStatement(src.id, Lit(src.b))>>
      [] src.f = "mutassign" ->  \* mut x = 5  x = 10  x       (TestMutStatement)
            <<MutStatement(src.id, Lit(src.a)), AssignStatement(src.id, Lit(src.b)),
              ExpressionStatement(Id(src.id))>>
      [] src.f = "shadow" ->     \* let x = 5  if true { let x = 10 }  x
            <<LetStatement(src.id, Lit(src.a)),
              If1(BooleanLiteral(TRUE), Block1(LetStatement(src.id, Lit(src.b)))),
              ExpressionStatement(Id(src.id))>>

ScopeLines ==
    {Src("let", "x", 1, 0), Src("mut", "x", 1, 0), Src("assign", "x", 2, 0),
     Src("ifassign", "x", 3, 0), Src("callassign", "x", 4, 0),
     Src("loopassign", "x", 5, 0), Src("iflet", "y", 6, 0), Src("ifmut", "x", 7, 0),
     Src("elselet", "y", 8, 0), Src("read", "x", 0, 0), Src("read", "y", 0, 0),
     Src("let", "y", 9, 0)}

ScopeFiles ==
    {Src("letassign", "x", 5, 10), Src("mutassign", "x", 5, 10), Src("shadow", "x", 5, 10)}

ScopeFams ==
    {"let", "mut", "assign", "ifassign", "callassign", "loopassign", "iflet", "ifmut",
     "elselet", "read", "letassign", "mutassign", "shadow"}

\* The most calls of the counter closure in one file.
MaxCalls == 3

ParseClosure(src) ==
    LET
        \* fn() { x = x + 1  x }
        IncLiteral ==
            FnLiteral(<<>>, BlockStatement(<<AssignStatement("x", Bin(Id("x"), "+", Lit(1))),
                                             ExpressionStatement(Id("x"))>>))
        \* fn() { x }
        GetLiteral == FnLiteral(<<>>, Block1(ExpressionStatement(Id("x"))))
        \* fn(v) { x = v }
        SetLiteral == FnLiteral(<<"v">>, Block1(AssignStatement("x", Id("v"))))
        \* fn counter() { mut x = 0  fn() { x = x + 1  x } }
        CounterDecl ==
            FnDeclaration("counter", <<>>,
                BlockStatement(<<MutStatement("x", Lit(0)), ExpressionStatement(IncLiteral)>>))
        \* fn pair() { mut x = 0  return [fn() { x = x + 1  x }, fn() { x }, fn(v) { x = v }] }
        PairDecl ==
            FnDeclaration("pair", <<>>,
                BlockStatement(<<MutStatement("x", Lit(0)),
                    ReturnStatement(<<ArrayLiteral(<<IncLiteral, GetLiteral, SetLiteral>>)>>)>>))
    IN
    CASE src.f = "mkcounter" ->  \* fn counter() { ... }  let c = counter()
            <<CounterDecl, LetStatement(src.id, Call0(Id("counter")))>>
      [] src.f = "call" ->       \* c()
            <<ExpressionStatement(Call0(Id(src.id)))>>
      [] src.f = "mkpair" ->     \* fn pair() { ... }  let p = pair()
            <<PairDecl, LetStatement(src.id, Call0(Id("pair")))>>
      [] src.f = "pinc" ->       \* p[0]()
            <<ExpressionStatement(Call0(IndexExpression(Id(src.id), Lit(0))))>>
      [] src.f = "pget" ->       \* p[1]()
            <<ExpressionStatement(Call0(IndexExpression(Id(src.id), Lit(1))))>>
      [] src.f = "pset" ->       \* p[2](5)
            <<ExpressionStatement(
                CallExpression(IndexExpression(Id(src.id), Lit(2)), <<Lit(src.a)>>))>>
      [] src.f = "rootdecl" ->   \* mut x = 0  fn inc() { x = x + 1  x }  fn get() { x }
            <<MutStatement("x", Lit(0)),
              FnDeclaration("inc", <<>>, IncLiteral.body),
              FnDeclaration("get", <<>>, GetLiteral.body)>>
      [] src.f = "rootset" ->    \* x = 5
            <<AssignStatement("x", Lit(src.a))>>
      [] src.f = "counter" ->    \* the counter, then a calls: c()  c()  c()   (TestClosures)
            <<CounterDecl, LetStatement(src.id, Call0(Id("counter")))>>
            \o [i \in 1..src.a |-> ExpressionStatement(Call0(Id(src.id)))]

ClosureLines ==
    {Src("mkcounter", "c", 0, 0), Src("mkcounter", "d", 0, 0), Src("call", "c", 0, 0),
     Src("call", "d", 0, 0), Src("mkpair", "p", 0, 0), Src("pinc", "p", 0, 0),
     Src("pget", "p", 0, 0), Src("pset", "p", 5, 0), Src("rootdecl", "x", 0, 0),
     Src("call", "inc", 0, 0), Src("call", "get", 0, 0), Src("rootset", "x", 5, 0)}

ClosureFiles == {Src("counter", "c", n, 0) : n \in 1..MaxCalls}

ClosureFams ==
    {"mkcounter", "call", "mkpair", "pinc", "pget", "pset", "rootdecl", "rootset", "counter"}

Incr(name) == AssignStatement(name, Bin(Id(name), "+", Lit(1)))
\* [1, 2, ..., n]
Upto(n) == ArrayLiteral([j \in 1..n |-> Lit(j)])
\* -3 is the unary minus of the literal 3
Num(i) == IF i < 0 THEN UnaryExpression("-", Lit(-i)) ELSE Lit(i)

\* The most iterations a generated loop is written for, and the widest step.
MaxEnd == 3
MaxStep == 2
\* The range end of the largest skipping loop: 0..10.
SkipEnd == 10
\* The loops of TestNestedBreak run over 0..5.
NestedEnd == 5

ParseLoop(src) ==
    LET
        \* mut n = 0  mut m = 0     or, on a later REPL line,     n = 0  m = 0
        Counters(id) ==
            IF id = "mut" THEN <<MutStatement("n", Lit(0)), MutStatement("m", Lit(0))>>
            ELSE <<AssignStatement("n", Lit(0)), AssignStatement("m", Lit(0))>>
        Signal(id) == IF id = "break" THEN BreakStatement ELSE ContinueStatement
        \* { n = n + 1  if n == k { break }  m = m + 1 }
        CountBody(k) ==
            BlockStatement(<<Incr("n"), If1(Bin(Id("n"), "==", Lit(k)), Block1(BreakStatement)),
                             Incr("m")>>)
        \* { if i % 2 == 0 { continue }  if i == b { break }  sum = sum + i }
        SkipBody(b) ==
            BlockStatement(<<If1(Bin(Bin(Id("i"), "%", Lit(2)), "==", Lit(0)),
                                 Block1(ContinueStatement)),
                             If1(Bin(Id("i"), "==", Lit(b)), Block1(BreakStatement)),
                             AssignStatement("sum", Bin(Id("sum"), "+", Id("i")))>>)
        \* { inner = inner + 1  if j == k { break }  rest = rest + 1 }
        InnerBody(id, k) ==
            <<Incr("inner"), If1(Bin(Id("j"), "==", Lit(k)), Block1(Signal(id))), Incr("rest")>>
        \* outer = outer + inner  after = after + 1
        OuterTail ==
            <<AssignStatement("outer", Bin(Id("outer"), "+", Id("inner"))), Incr("after")>>
    IN
    CASE src.f = "vars" ->    \* mut n = 0  mut m = 0
            Counters("mut")
      [] src.f = "inf" ->     \* loop { ... }
            Counters(src.id) \o <<Forever(1, CountBody(src.a))>>
      [] src.f = "cond" ->    \* loop n < 3 { ... }
            Counters(src.id) \o <<While(1, Bin(Id("n"), "<", Lit(src.b)), CountBody(src.a))>>
      [] src.f = "arr" ->     \* loop i in [1, 2, 3] { ... }
            Counters(src.id) \o <<ForIn(1, "i", Upto(src.b), CountBody(src.a))>>
      [] src.f = "range" ->   \* loop i in 0..3 { ... }
            Counters(src.id) \o <<ForIn(1, "i", Range2(0, src.b), CountBody(src.a))>>
      [] src.f = "nest" ->    \* TestNestedBreak, with a counter after the signal
            <<MutStatement("outer", Lit(0)), MutStatement("after", Lit(0)),
              MutStatement("rest", Lit(0)),
              ForIn(1, "i", Range2(0, src.c),
                  BlockStatement(
                      <<MutStatement("inner", Lit(0)),
                        ForIn(2, "j", Range2(0, src.b),
                              BlockStatement(InnerBody(src.id, src.a)))>>
                      \o OuterTail)),
              ExpressionStatement(Id("outer"))>>
      [] src.f = "nestw" ->   \* the same with conditional loops
            <<MutStatement("outer", Lit(0)), MutStatement("after", Lit(0)),
              MutStatement("rest", Lit(0)), MutStatement("i", Lit(0)),
              While(1, Bin(Id("i"), "<", Lit(src.c)),
                  BlockStatement(
                      <<Incr("i"), MutStatement("inner", Lit(0)), MutStatement("j", Lit(0)),
                        While(2, Bin(Id("j"), "<", Lit(src.b)),
                              BlockStatement(<<Incr("j")>> \o InnerBody(src.id, src.a)))>>
                      \o OuterTail)),
              ExpressionStatement(Id("outer"))>>
      [] src.f = "skip" /\ src.id = "range" ->   \* loop i in 0..10 { ... }  (TestContinue)
            <<MutStatement("sum", Lit(0)),
              ForIn(1, "i", Range2(0, src.b), SkipBody(src.a)),
              ExpressionStatement(Id("sum"))>>
      [] src.f = "skip" /\ src.id = "arr" ->     \* loop i in [1, 2, 3] { ... }
            <<MutStatement("sum", Lit(0)),
              ForIn(1, "i", Upto(src.b), SkipBody(src.a)),
              ExpressionStatement(Id("sum"))>>
      [] src.f = "skip" /\ src.id = "cond" ->    \* loop i < 3 { i = i + 1  ... }
            <<MutStatement("sum", Lit(0)), MutStatement("i", Lit(0)),
              While(1, Bin(Id("i"), "<", Lit(src.b)),
                    BlockStatement(<<Incr("i")>> \o SkipBody(src.a).stmts)),
              ExpressionStatement(Id("sum"))>>
      [] src.f = "steps" ->   \* mut n = 0  loop i in 3..0:-1 { n = n + 1 }  n
            <<MutStatement("n", Lit(0)),
              ForIn(1, "i", RangeExpression(Lit(src.a), Lit(src.b), Num(src.c)),
                    Block1(Incr("n"))),
              ExpressionStatement(Id("n"))>>

FlatFams == {"inf", "cond", "arr", "range"}

LoopLines ==
    {Src("vars", "mut", 0, 0)}
    \cup {Src(f, "set", k, MaxEnd) : f \in FlatFams, k \in {2, MaxEnd + 1}}
    \cup {Src("cond", "mut", k, MaxEnd - 1) : k \in 1..2}

LoopFiles ==
    {Src(f, "mut", k, e) : f \in FlatFams, k \in 1..(MaxEnd + 1), e \in 0..MaxEnd}
    \cup {Src(f, "mut", 0, e) : f \in FlatFams \ {"inf"}, e \in 0..MaxEnd}
    \cup {Src3(f, id, k, e, n) : f \in {"nest", "nestw"}, id \in {"break", "continue"},
                                 k \in 0..(MaxEnd + 1), e \in 0..MaxEnd, n \in 0..MaxEnd}
    \cup {Src3("nest", "break", 2, NestedEnd, NestedEnd)}
    \cup {Src("skip", id, b, e) : id \in {"range", "arr", "cond"},
                                  b \in 0..(SkipEnd + 1), e \in 0..SkipEnd}
    \cup {Src3("steps", "n", a, b, c) : a \in 0..MaxEnd, b \in 0..MaxEnd,
                                        c \in (-MaxStep..MaxStep) \ {0}}

LoopFams == FlatFams \cup {"vars", "nest", "nestw", "skip", "steps"}

ParseSignal(src) ==
    LET stmt == CASE src.id = "break" -> BreakStatement
                  [] src.id = "continue" -> ContinueStatement
                  [] src.id = "return" -> ReturnStatement(<<Lit(1)>>)
                  [] OTHER -> Nil
        name == CASE src.id = "break" -> "fb"
                  [] src.id = "continue" -> "fc"
                  [] OTHER -> "fr"
    IN
    CASE src.f = "bare" ->      \* break
            <<stmt>>
      [] src.f = "inif" ->      \* if true { break }
            <<If1(BooleanLiteral(TRUE), Block1(stmt))>>
      [] src.f = "infn" ->      \* fn fb() { break }  fb()
            <<FnDeclaration(name, <<>>, Block1(stmt)), ExpressionStatement(Call0(Id(name)))>>
      [] src.f = "inloop" ->    \* loop i in 0..2 { break }
            <<ForIn(1, "i", Range2(0, 2), Block1(stmt))>>
      [] src.f = "fails" /\ src.id = "len" ->     \* len()
            <<ExpressionStatement(Call0(Id("len")))>>
      [] src.f = "fails" /\ src.id = "div" ->     \* 1 / 0
            <<ExpressionStatement(Bin(Lit(1), "/", Lit(0)))>>
      [] src.f = "fails" /\ src.id = "name" ->    \* nosuch
            <<ExpressionStatement(Id("nosuch"))>>

SignalFams == {"bare", "inif", "infn", "inloop", "fails"}

SignalLines ==
    {Src(f, id, 0, 0) : f \in SignalFams \ {"fails"}, id \in {"break", "continue", "return"}}
    \cup {Src("fails", id, 0, 0) : id \in {"len", "div", "name"}}

SignalFiles == SignalLines

\* The subjects tried on the arms of TestMatchRange go up to this one.
MaxSubject == 11

ParseMatch(src) ==
    LET Arm(pattern, guard, expr) ==
            MatchArm(pattern, guard, Block1(ExpressionStatement(expr)))
        Flag(b) == BooleanLiteral(b = 1)
        \* { 0..3 => "low"  3..7 => "mid"  7..10 => "high"  _ => "out" }
        RangeArms ==
            <<Arm(Range2(0, 3), Nil, StringLiteral("low")),
              Arm(Range2(3, 7), Nil, StringLiteral("mid")),
              Arm(Range2(7, 10), Nil, StringLiteral("high")),
              Arm(Id("_"), Nil, StringLiteral("out"))>>
    IN
    CASE src.f = "mrange" ->    \* let x = 5  match x { ... }     (TestMatchRange)
            <<LetStatement("x", Num(src.a)), MatchStatement(1, Id("x"), RangeArms)>>
      [] src.f = "mlit" ->      \* match 5 { ... }
            <<MatchStatement(1, Num(src.a), RangeArms)>>
      [] src.f = "marms" ->
            \* mut calls = 0  fn subj() { calls = calls + 1  2 }
            \* match subj() { 1 if true => 10  1 => 11  0..3 if false => 20  2 => 21  4 => 0 }
            <<MutStatement("calls", Lit(0)),
              FnDeclaration("subj", <<>>,
                  BlockStatement(<<Incr("calls"), ExpressionStatement(Lit(src.a))>>)),
              MatchStatement(1, Call0(Id("subj")),
                  <<Arm(Lit(1), Flag(src.b % 2), Lit(10)),
                    Arm(Lit(1), Nil, Lit(11)),
                    Arm(Range2(0, 3), Flag(src.b \div 2), Lit(20)),
                    Arm(Lit(2), Nil, Lit(21)),
                    Arm(Lit(4), Nil, Lit(0))>>)>>
      [] src.f = "letn" ->      \* let n = 1
            <<LetStatement("n", Lit(src.a))>>
      [] src.f = "bind" ->      \* match 2 { n => n }
            <<MatchStatement(1, Lit(src.a), <<Arm(Id("n"), Nil, Id("n"))>>)>>
      [] src.f = "bindg" ->     \* match 2 { n if n == 2 => 1  _ => 0 }
            <<MatchStatement(1, Lit(src.a),
                  <<Arm(Id("n"), Bin(Id("n"), "==", Lit(src.a)), Lit(1)),
                    Arm(Id("_"), Nil, Lit(0))>>)>>
      [] src.f = "bound" ->     \* let n = 1  match 2 { n => n }
            <<LetStatement("n", Lit(src.b)),
              MatchStatement(1, Lit(src.a), <<Arm(Id("n"), Nil, Id("n"))>>)>>
      [] src.f = "param" ->     \* fn f(n) { match 2 { n => n } }  f(1)
            <<FnDeclaration("f", <<"n">>,
                  Block1(MatchStatement(1, Lit(src.a), <<Arm(Id("n"), Nil, Id("n"))>>))),
              ExpressionStatement(CallExpression(Id("f"), <<Lit(src.b)>>))>>

BindFams == {"bind", "bindg", "bound", "param"}
MatchFams == {"mrange", "mlit", "marms", "letn"} \cup BindFams

MatchLines ==
    {Src("letn", "n", 1, 0)}
    \cup {Src(f, "n", v, 0) : f \in {"bind", "bindg"}, v \in 2..3}
    \cup {Src("mlit", "x", v, 0) : v \in {2, 3, 5, 7, MaxSubject}}

MatchFiles ==
    {Src(f, "x", v, 0) : f \in {"mrange", "mlit"}, v \in (-1)..MaxSubject}
    \cup {Src("marms", "s", v, b) : v \in 0..4, b \in 0..3}
    \cup {Src(f, "n", v, 0) : f \in {"bind", "bindg"}, v \in 2..3}
    \cup {Src(f, "n", v, w) : f \in {"bound", "param"}, v \in 1..2, w \in 1..2}

\* The most values one return statement is written with.
MaxRet == 3

ParseCall(src) ==
    LET Call(name, args) == ExpressionStatement(CallExpression(Id(name), args))
        T(k) == CallExpression(Id("t"), <<Lit(k)>>)
        Fn(name, params, stmts) == FnDeclaration(name, params, BlockStatement(stmts))
        Note(k) == AssignStatement("seq", Bin(Bin(Id("seq"), "*", Lit(10)), "+", Id("k")))
        \* mut seq = 0  mut after = 0
        \* fn t(k) { seq = seq * 10 + k  k }
        \* fn f3(x, a, b) { x * 100 + a * 10 + b }
        \* fn pick(k) { seq = seq * 10 + k  f3 }
        \* fn inc(x) { x + 1 }     fn dbl(x) { x * 2 }
        \* fn g2(a, b) { after = after + 1  a * 10 + b }
        \* fn h(p) { p = 5  p }
        Prelude ==
            <<MutStatement("seq", Lit(0)), MutStatement("after", Lit(0)),
              Fn("t", <<"k">>, <<Note("k"), ExpressionStatement(Id("k"))>>),
              Fn("f3", <<"x", "a", "b">>,
                 <<ExpressionStatement(
                     Bin(Bin(Bin(Id("x"), "*", Lit(100)), "+", Bin(Id("a"), "*", Lit(10))),
                         "+", Id("b")))>>),
              Fn("pick", <<"k">>, <<Note("k"), ExpressionStatement(Id("f3"))>>),
              Fn("inc", <<"x">>, <<ExpressionStatement(Bin(Id("x"), "+", Lit(1)))>>),
              Fn("dbl", <<"x">>, <<ExpressionStatement(Bin(Id("x"), "*", Lit(2)))>>),
              Fn("g2", <<"a", "b">>,
                 <<Incr("after"),
                   ExpressionStatement(Bin(Bin(Id("a"), "*", Lit(10)), "+", Id("b")))>>),
              Fn("h", <<"p">>, <<AssignStatement("p", Lit(5)), ExpressionStatement(Id("p"))>>)>>
        \* a file starts with the declarations, a REPL line with   seq = 0  after = 0
        Start == IF src.c = 1 THEN Prelude
                 ELSE <<AssignStatement("seq", Lit(0)), AssignStatement("after", Lit(0))>>
        Piped(x, call) == ExpressionStatement(PipelineExpression(x, call))
        F3(args) == CallExpression(Id("f3"), args)
        Body ==
            CASE src.f = "prelude" -> <<>>
              [] src.f = "retn" ->
                    \* fn retn() {
                    \*     return t(1), t(2)
                    \*     after = 1
                    \* }
                    \* retn()
                    <<Fn(src.f, <<>>, <<ReturnStatement([i \in 1..src.a |-> T(i)]),
                                        AssignStatement("after", Lit(1))>>),
                      Call(src.f, <<>>)>>
              [] src.f = "retloop" ->
                    \* fn f() {
                    \*     loop i in 0..3 {
                    \*         mut j = 0
                    \*         loop j < 3 { j = j + 1  if true { if j == 2 { return i * 10 + j } } }
                    \*         after = after + 1
                    \*     }
                    \*     after = after + 100
                    \*     99
                    \* }
                    \* f()
                    <<Fn(src.f, <<>>,
                         <<ForIn(1, "i", Range2(0, 3),
                               BlockStatement(
                                 <<MutStatement("j", Lit(0)),
                                   While(2, Bin(Id("j"), "<", Lit(3)),
                                     BlockStatement(
                                       <<Incr("j"),
                                         If1(BooleanLiteral(TRUE),
                                             Block1(If1(Bin(Id("j"), "==", Lit(src.a)),
                                                 Block1(ReturnStatement(
                                                     <<Bin(Bin(Id("i"), "*", Lit(10)),
                                                           "+", Id("j"))>>)))))>>)),
                                   Incr("after")>>)),
                           AssignStatement("after", Bin(Id("after"), "+", Lit(100))),
                           ExpressionStatement(Lit(99))>>),
                      Call(src.f, <<>>)>>
              [] src.f = "last" ->      \* fn f() { let y = 4  y + 1 }  f()
                    <<Fn(src.f, <<>>, <<LetStatement("y", Lit(src.a)),
                                        ExpressionStatement(Bin(Id("y"), "+", Lit(1)))>>),
                      Call(src.f, <<>>)>>
              [] src.f = "lastlet" ->   \* fn f() { let y = 4 }  f()
                    <<Fn(src.f, <<>>, <<LetStatement("y", Lit(src.a))>>), Call(src.f, <<>>)>>
              [] src.f = "arity" ->     \* g2(t(1), t(2), t(3))
                    <<Call("g2", [i \in 1..src.a |-> T(i)])>>
              [] src.f = "passign" ->   \* h(1)
                    <<Call("h", <<Lit(src.a)>>)>>
              [] src.f = "pipe" /\ src.id = "id3" ->      \* t(1) |> f3(t(2), t(3))
                    <<Piped(T(1), F3(<<T(2), T(3)>>))>>
              [] src.f = "direct" /\ src.id = "id3" ->    \* f3(t(1), t(2), t(3))
                    <<ExpressionStatement(F3(<<T(1), T(2), T(3)>>))>>
              [] src.f = "pipe" /\ src.id = "pick" ->     \* t(1) |> pick(4)(t(2), t(3))
                    <<Piped(T(1), CallExpression(CallExpression(Id("pick"), <<Lit(4)>>),
                                                 <<T(2), T(3)>>))>>
              [] src.f = "direct" /\ src.id = "pick" ->   \* pick(4)(t(1), t(2), t(3))
                    <<ExpressionStatement(
                        CallExpression(CallExpression(Id("pick"), <<Lit(4)>>),
                                       <<T(1), T(2), T(3)>>))>>
              [] src.f = "pipe" /\ src.id = "chain" ->    \* 5 |> inc() |> dbl()
                    <<Piped(PipelineExpression(Lit(src.a), CallExpression(Id("inc"), <<>>)),
                            CallExpression(Id("dbl"), <<>>))>>
              [] src.f = "direct" /\ src.id = "chain" ->  \* dbl(inc(5))
                    <<Call("dbl", <<CallExpression(Id("inc"), <<Lit(src.a)>>)>>)>>
              [] src.f = "pipe" /\ src.id = "few" ->      \* t(1) |> f3(t(2))
                    <<Piped(T(1), F3(<<T(2)>>))>>
              [] src.f = "direct" /\ src.id = "few" ->    \* f3(t(1), t(2))
                    <<ExpressionStatement(F3(<<T(1), T(2)>>))>>
              [] src.f = "pipe" /\ src.id = "badarg" ->   \* t(1) |> f3(nosuch, t(3))
                    <<Piped(T(1), F3(<<Id("nosuch"), T(3)>>))>>
              [] src.f = "direct" /\ src.id = "badarg" -> \* f3(t(1), nosuch, t(3))
                    <<ExpressionStatement(F3(<<T(1), Id("nosuch"), T(3)>>))>>
    IN  Start \o Body

PipeForms == {"id3", "pick", "chain", "few", "badarg"}
CallFams ==
    {"prelude", "retn", "retloop", "last", "lastlet", "arity", "passign", "pipe", "direct"}

CallLines ==
    {Src3("prelude", "", 0, 0, 1), Src("retn", "", 2, 0), Src("retloop", "", 2, 0),
     Src("arity", "", 1, 0), Src("arity", "", 2, 0), Src("passign", "", 1, 0)}
    \cup {Src(f, id, 5, 0) : f \in {"pipe", "direct"}, id \in {"id3", "pick", "chain"}}

CallFiles ==
    {Src3("retn", "", n, 0, 1) : n \in 0..MaxRet}
    \cup {Src3("retloop", "", k, 0, 1) : k \in 0..4}
    \cup {Src3(f, "", v, 0, 1) : f \in {"last", "lastlet", "passign"}, v \in 1..2}
    \cup {Src3("arity", "", m, 0, 1) : m \in 0..MaxRet}
    \cup {Src3(f, id, v, 0, 1) : f \in {"pipe", "direct"}, id \in PipeForms, v \in 1..2}

\* The longest array a generated program indexes.
MaxLen == 3

ParseArray(src) ==
    LET \* let xs = [1, 2, 3]  let ys = xs
        Decl == <<LetStatement("xs", Upto(src.b)), LetStatement("ys", Id("xs"))>>
        At(name) == IndexExpression(Id(name), Num(src.a))
        Put == IndexAssignStatement(Id("xs"), Num(src.a), Lit(99))
    IN
    CASE src.f = "aread" ->     \* let xs = [1, 2, 3]  let ys = xs  xs[1]
            Decl \o <<ExpressionStatement(At("xs"))>>
      [] src.f = "awrite" ->    \* let xs = [1, 2, 3]  let ys = xs  xs[1] = 99  ys[1]
            Decl \o <<Put, ExpressionStatement(At("ys"))>>
      [] src.f = "adecl" ->     \* let xs = [1, 2, 3]  let ys = xs
            Decl
      [] src.f = "aset" ->      \* xs[1] = 99
            <<Put>>
      [] src.f = "aget" ->      \* ys[1]
            <<ExpressionStatement(At(src.id))>>

ArrayFams == {"aread", "awrite", "adecl", "aset", "aget"}

ArrayLines ==
    {Src("adecl", "xs", 0, MaxLen)}
    \cup {Src("aset", "xs", i, 0) : i \in {-1, 0, MaxLen - 1, MaxLen}}
    \cup {Src("aget", id, i, 0) : id \in {"xs", "ys"}, i \in {0, MaxLen - 1, MaxLen}}

ArrayFiles ==
    {Src(f, "xs", i, n) : f \in {"aread", "awrite"}, i \in (-1)..(MaxLen + 1), n \in 0..MaxLen}

\* Four strings in lexicographic order.
StrPool == <<"", "a", "ab", "b">>

ParseCompare(src) ==
    LET \* let xs = [1]  fn f() { 1 }  fn g() { 1 }
        Decl == <<LetStatement("xs", Upto(1)),
                  FnDeclaration("f", <<>>, Block1(ExpressionStatement(Lit(1)))),
                  FnDeclaration("g", <<>>, Block1(ExpressionStatement(Lit(1))))>>
        \* 1, 2, 1.0, 1.5, true, "a", none, xs, [1], 0..2, f, g, len
        Operand(i) ==
            <<Lit(1), Lit(2), FloatLiteral(2), FloatLiteral(3), BooleanLiteral(TRUE),
              StringLiteral("a"), NoneLiteral, Id("xs"), Upto(1), Range2(0, 2),
              Id("f"), Id("g"), Id("len")>>[i]
    IN
    CASE src.f = "cdecl" -> Decl
      [] src.f = "eq" ->        \* 1.5 == "a"
            (IF src.c = 1 THEN Decl ELSE <<>>)
            \o <<ExpressionStatement(Bin(Operand(src.a), src.id, Operand(src.b)))>>
      [] src.f = "strcmp" ->    \* "a" < "ab"
            <<ExpressionStatement(
                Bin(StringLiteral(StrPool[src.a]), src.id, StringLiteral(StrPool[src.b])))>>

Operands == 1..13
CompareFams == {"cdecl", "eq", "strcmp"}

CompareLines ==
    {Src("cdecl", "", 0, 0)}
    \cup {Src("eq", op, a, b) : op \in {"==", "!="}, a \in {1, 8}, b \in {1, 9}}
    \cup {Src("strcmp", "<", a, 3) : a \in {2, 3}}

CompareFiles ==
    {Src3("eq", op, a, b, 1) : op \in {"==", "!="}, a \in Operands, b \in Operands}
    \cup {Src("strcmp", op, a, b) : op \in {"<", ">", "<=", ">="},
                                    a \in DOMAIN StrPool, b \in DOMAIN StrPool}

\* Programs that define and assign x in the root scope, in a call's scope and
\* in a loop body's scope inside a call; src.c tells what the file declares
\* first: nothing, let x = 1, or mut x = 2.
ParseEnv(src) ==
    LET x == src.id
        Decl(body) == FnDeclaration(src.f, <<>>, BlockStatement(body))
        Run == ExpressionStatement(CallExpression(Id(src.f), <<>>))
        First == CASE src.c = 0 -> <<>>
                   [] src.c = 1 -> <<LetStatement(x, Lit(1))>>
                   [] src.c = 2 -> <<MutStatement(x, Lit(2))>>
        Rest ==
          CASE src.f = "fnlet" ->        \* fn fnlet() { let x = 7  x }  fnlet()
                 <<Decl(<<LetStatement(x, Lit(src.a)), ExpressionStatement(Id(x))>>), Run>>
            [] src.f = "fndup" ->        \* fn fndup() { mut x = 7  let x = 8  x }  fndup()
                 <<Decl(<<MutStatement(x, Lit(src.a)), LetStatement(x, Lit(src.b)),
                          ExpressionStatement(Id(x))>>), Run>>
            [] src.f = "fnassign" ->     \* fn fnassign() { x = 7 }  fnassign()
                 <<Decl(<<AssignStatement(x, Lit(src.a))>>), Run>>
            [] src.f = "fnletassign" ->  \* fn fnletassign() { let x = 7  x = 8  x }  fnletassign()
                 <<Decl(<<LetStatement(x, Lit(src.a)), AssignStatement(x, Lit(src.b)),
                          ExpressionStatement(Id(x))>>), Run>>
            [] src.f = "fnmutassign" ->  \* fn fnmutassign() { mut x = 7  x = 8  x }  fnmutassign()
                 <<Decl(<<MutStatement(x, Lit(src.a)), AssignStatement(x, Lit(src.b)),
                          ExpressionStatement(Id(x))>>), Run>>
            [] src.f = "looplet" ->  \* fn looplet() { let x = 7  loop i in 0..1 { let x = 8 }  x }  looplet()
                 <<Decl(<<LetStatement(x, Lit(src.a)),
                          ForIn(1, "i", Range2(0, 1), Block1(LetStatement(x, Lit(src.b)))),
                          ExpressionStatement(Id(x))>>), Run>>
            [] src.f = "loopset" ->  \* fn loopset() { mut x = 7  loop i in 0..1 { x = 8 }  x }  loopset()
                 <<Decl(<<MutStatement(x, Lit(src.a)),
                          ForIn(1, "i", Range2(0, 1), Block1(AssignStatement(x, Lit(src.b)))),
                          ExpressionStatement(Id(x))>>), Run>>
            [] src.f = "rootlet" ->      \* let x = 7
                 <<LetStatement(x, Lit(src.a))>>
            [] src.f = "rootmut" ->      \* mut x = 7
                 <<MutStatement(x, Lit(src.a))>>
            [] src.f = "rootassign" ->   \* x = 7
                 <<AssignStatement(x, Lit(src.a))>>
            [] src.f = "rootread" ->     \* x
                 <<ExpressionStatement(Id(x))>>
    IN  First \o Rest

InnerFams == {"fnlet", "fndup", "fnassign", "fnletassign", "fnmutassign", "looplet", "loopset"}

EnvFams == InnerFams \cup {"rootlet", "rootmut", "rootassign", "rootread"}

EnvSources(c) ==
    {Src3(f, "x", 7, 8, c) : f \in InnerFams}
    \cup {Src3("rootlet", "x", 3, 0, c), Src3("rootmut", "x", 4, 0, c),
          Src3("rootassign", "x", 5, 0, c), Src3("rootread", "x", 0, 0, c)}

EnvLines == EnvSources(0)

EnvFiles == EnvSources(0) \cup EnvSources(1) \cup EnvSources(2)

\* The files given to `glace test` and `glace run`: up to MaxStmts top-level
\* statements, src.id naming each.
MaxStmts == 3

Items == {"a", "b", "bad", "t1", "t2", "t3", "t4", "t5"}

ParseTest(src) ==
    LET Check(args) == ExpressionStatement(CallExpression(Id("assert"), args))
        Is(name, i) == Bin(Id(name), "==", Lit(i))
        Stmt(item) ==
          CASE item = "a" -> LetStatement("a", Lit(1))            \* let a = 1
            [] item = "b" -> LetStatement("b", Id("a"))           \* let b = a
            [] item = "bad" -> LetStatement("c", Id("nope"))      \* let c = nope
            [] item = "t1" ->         \* test "t1" { let x = 1  assert(x == 1) }
                 TestBlock("t1", BlockStatement(<<LetStatement("x", Lit(1)),
                                                  Check(<<Is("x", 1)>>)>>))
            [] item = "t2" ->         \* test "t2" { assert(x == 1) }
                 TestBlock("t2", BlockStatement(<<Check(<<Is("x", 1)>>)>>))
            [] item = "t3" ->         \* test "t3" { assert(a == 1) }
                 TestBlock("t3", BlockStatement(<<Check(<<Is("a", 1)>>)>>))
            [] item = "t4" ->         \* test "t4" { assert(b == 1) }
                 TestBlock("t4", BlockStatement(<<Check(<<Is("b", 1)>>)>>))
            [] item = "t5" ->         \* test "t5" { assert(1 == 2, "differ") }
                 TestBlock("t5", BlockStatement(<<Check(<<Bin(Lit(1), "==", Lit(2)),
                                                           StringLiteral("differ")>>)>>))
    IN  [i \in DOMAIN src.id |-> Stmt(src.id[i])]

TestFams == {"tests"}

TestFiles == {Src("tests", items, 0, 0) : items \in UNION {[1..n -> Items] : n \in 0..MaxStmts}}

\* The texts that use a built-in's name: src.id is the name.
ParseBuiltin(src) ==
    CASE src.f = "bread" -> <<ExpressionStatement(Id(src.id))>>           \* print
      [] src.f = "bassign" -> <<AssignStatement(src.id, Lit(1))>>         \* print = 1
      [] src.f = "blet" -> <<LetStatement(src.id, Lit(1))>>               \* let print = 1
      [] src.f = "bmut" -> <<MutStatement(src.id, Lit(1))>>               \* mut print = 1
      [] src.f = "btest" ->                                               \* test "t" { print }
           <<TestBlock("t", Block1(ExpressionStatement(Id(src.id))))>>

BuiltinFams == {"bread", "bassign", "blet", "bmut", "btest"}

\* The names the language's built-in functions go by.
Required ==
    {"print", "len", "push", "pop", "type", "str", "int", "float", "input", "assert",
     "array", "filter", "map", "reduce", "sort", "keys", "values", "has", "reverse"}

BuiltinFiles == {Src(f, id, 0, 0) : f \in BuiltinFams, id \in Required}

BuiltinLines ==
    {Src("bread", id, 0, 0) : id \in Required}
    \cup {Src(f, id, 0, 0) : f \in BuiltinFams \ {"bread"}, id \in {"print", "reverse"}}

\* The texts that declare a name twice: src.c is the first declaration of
\* src.id (0 none, 1 let, 2 mut, 3 fn), src.f the second, and the last
\* statement reads the name.  The "in" shapes do so in a function's scope.
ParseDecl(src) ==
    LET x == src.id
        Returns(v) == BlockStatement(<<ExpressionStatement(Lit(v))>>)
        First == CASE src.c = 0 -> <<>>
                   [] src.c = 1 -> <<LetStatement(x, Lit(src.a))>>       \* let x = 1
                   [] src.c = 2 -> <<MutStatement(x, Lit(src.a))>>       \* mut x = 1
                   [] src.c = 3 -> <<FnDeclaration(x, <<>>, Returns(src.a))>>   \* fn x() { 1 }
        Second == CASE src.f \in {"dlet", "dletin"} -> LetStatement(x, Lit(src.b))   \* let x = 2
                    [] src.f \in {"dmut", "dmutin"} -> MutStatement(x, Lit(src.b))   \* mut x = 2
                    [] src.f \in {"dfn", "dfnin"} ->                                 \* fn x() { 2 }
                         FnDeclaration(x, <<>>, Returns(src.b))
        Body == First \o <<Second, ExpressionStatement(Id(x))>>
    IN  IF src.f \in {"dlet", "dmut", "dfn"} THEN Body
        ELSE <<FnDeclaration(src.f, <<>>, BlockStatement(Body)),    \* fn dletin() { ... }  dletin()
               ExpressionStatement(Call0(Id(src.f)))>>

RootDeclFams == {"dlet", "dmut", "dfn"}

DeclFams == RootDeclFams \cup {"dletin", "dmutin", "dfnin"}

DeclLines == {Src3(f, "x", 1, 2, c) : f \in RootDeclFams, c \in 0..3}

DeclFiles == {Src3(f, "x", 1, 2, c) : f \in DeclFams, c \in 0..3}

\* The texts whose loop bodies declare names: src.a is the number of
\* iterations, src.b the iteration whose closure is kept, and with src.c = 1
\* the text is the body of a function that is then called.
ParseIter(src) ==
    LET n == src.a
        y == src.id
        Body ==
          CASE src.f = "itrange" ->      \* loop i in 0..3 { let y = i }
                 <<ForIn(1, "i", Range2(0, n), Block1(LetStatement(y, Id("i"))))>>
            [] src.f = "itarray" ->      \* loop i in [1, 2, 3] { let y = i }
                 <<ForIn(1, "i", Upto(n), Block1(LetStatement(y, Id("i"))))>>
            [] src.f = "itwhile" ->      \* mut k = 0  loop k < 3 { let y = k  k = k + 1 }
                 <<MutStatement("k", Lit(0)),
                   While(1, Bin(Id("k"), "<", Lit(n)),
                         BlockStatement(<<LetStatement(y, Id("k")), Incr("k")>>))>>
            [] src.f = "itassign" ->     \* loop i in 0..3 { i = 5 }
                 <<ForIn(1, "i", Range2(0, n), Block1(AssignStatement("i", Lit(5))))>>
            [] src.f = "itafter" ->      \* loop i in 0..3 { let y = i }  y
                 <<ForIn(1, "i", Range2(0, n), Block1(LetStatement(y, Id("i")))),
                   ExpressionStatement(Id(y))>>
            [] src.f = "itafteri" ->     \* loop i in [1, 2, 3] { let y = i }  i
                 <<ForIn(1, "i", Upto(n), Block1(LetStatement(y, Id("i")))),
                   ExpressionStatement(Id("i"))>>
            [] src.f = "itclos" ->   \* mut f = 0  loop i in 0..3 { if i == 1 { f = fn() { i } } }  f()
                 <<MutStatement("f", Lit(0)),
                   ForIn(1, "i", Range2(0, n),
                         Block1(If1(Bin(Id("i"), "==", Lit(src.b)),
                                    Block1(AssignStatement("f",
                                               FnLiteral(<<>>, Block1(ExpressionStatement(
                                                                          Id("i"))))))))),
                   ExpressionStatement(Call0(Id("f")))>>
    IN  IF src.c = 0 THEN Body
        ELSE <<FnDeclaration(src.f, <<>>, BlockStatement(Body)),
               ExpressionStatement(Call0(Id(src.f)))>>

DeclaringFams == {"itrange", "itarray", "itwhile"}

IterFams == DeclaringFams \cup {"itassign", "itafter", "itafteri", "itclos"}

IterLines ==
    {Src3(f, "y", n, 0, 0) : f \in {"itrange", "itarray", "itassign", "itafter"},
                             n \in 1..MaxEnd}

IterFiles ==
    {Src3(f, "y", n, 0, c) : f \in IterFams \ {"itclos"}, n \in 1..MaxEnd, c \in 0..1}
    \cup {Src3("itclos", "y", n, b, c) : n \in 1..MaxEnd, b \in 0..(MaxEnd - 1), c \in 0..1}

\* The operands of the logical operators: literals of every truthiness.
Operand ==
    <<BooleanLiteral(TRUE), BooleanLiteral(FALSE), NoneLiteral, Lit(0), Lit(1),
      StringLiteral(""), StringLiteral("s")>>

\* The texts with && and ||: src.id is the operator, src.a and src.b the
\* operands' places in Operand.
ParseLogic(src) ==
    LET a == Operand[src.a]
        b == Operand[src.b]
    IN  CASE src.f = "lpure" ->      \* true && 1
               <<ExpressionStatement(Bin(a, src.id, b))>>
          [] src.f = "lcall" ->      \* mut hits = 0  fn b() { hits = hits + 1  1 }  true && b()
               <<MutStatement("hits", Lit(0)),
                 FnDeclaration("b", <<>>,
                               BlockStatement(<<Incr("hits"), ExpressionStatement(b)>>)),
                 ExpressionStatement(Bin(a, src.id, Call0(Id("b"))))>>
          [] src.f = "lfail" ->      \* true && nope
               <<ExpressionStatement(Bin(a, src.id, Id("nope")))>>

LogicFams == {"lpure", "lcall", "lfail"}

LogicLines ==
    {Src("lfail", op, a, 1) : op \in {"&&", "||"}, a \in DOMAIN Operand}
    \cup {Src("lpure", op, a, b) : op \in {"&&", "||"}, a \in 1..2, b \in 1..2}

LogicFiles ==
    LogicLines
    \cup {Src(f, op, a, b) : f \in {"lpure", "lcall"}, op \in {"&&", "||"},
                             a \in DOMAIN Operand, b \in DOMAIN Operand}

\* The texts over a range a..b:c, src.c the step.
ParseRange(src) ==
    LET r == RangeExpression(Num(src.a), Num(src.b), Num(src.c))
    IN  CASE src.f = "rloop" ->      \* mut n = 0  loop i in 0..3:2 { n = n + 1 }  n
               <<MutStatement(src.id, Lit(0)),
                 ForIn(1, "i", r, Block1(Incr(src.id))),
                 ExpressionStatement(Id(src.id))>>
          [] src.f = "rarray" ->     \* len(array(0..3:2)) == len(0..3:2)
               <<ExpressionStatement(
                     Bin(CallExpression(Id("len"), <<CallExpression(Id("array"), <<r>>)>>),
                         "==", CallExpression(Id("len"), <<r>>)))>>

RangeFams == {"rloop", "rarray"}

RangeLines == {Src3("rarray", "n", a, b, c) : a \in 0..1, b \in 0..1, c \in 0..1}

RangeFiles ==
    {Src3(f, "n", a, b, c) : f \in RangeFams, a \in 0..MaxEnd, b \in 0..MaxEnd,
                             c \in (0 - MaxStep)..MaxStep}

\* The texts whose functions break or continue outside a loop of their own:
\* src.a is the number of iterations of the calling loop, src.b the iteration
\* of the call.  The text is the body of a function named src.id, which is
\* then called.
ParseEscape(src) ==
    LET N == src.a
        Signal(name, stmt) == FnDeclaration(name, <<>>, Block1(stmt))
        Counter == MutStatement("n", Lit(0))
        Read == ExpressionStatement(Id("n"))
        At(stmt) == If1(Bin(Id("i"), "==", Lit(src.b)), Block1(stmt))
        Run(name) == ExpressionStatement(Call0(Id(name)))
        Ho(name, stmt) ==
            ExpressionStatement(CallExpression(Id(name),
                <<Upto(2), FnLiteral(<<"x">>, Block1(stmt))>>))
        Body ==
          CASE src.f = "ebreak" ->
                 \* fn stop() { break }  mut n = 0
                 \* loop i in 0..3 { n = n + 1  if i == 1 { stop() } }  n
                 <<Signal("stop", BreakStatement), Counter,
                   ForIn(1, "i", Range2(0, N), BlockStatement(<<Incr("n"), At(Run("stop"))>>)),
                   Read>>
            [] src.f = "econt" ->
                 \* fn skip() { continue }  mut n = 0
                 \* loop i in 0..3 { if i == 1 { skip() }  n = n + 1 }  n
                 <<Signal("skip", ContinueStatement), Counter,
                   ForIn(1, "i", Range2(0, N), BlockStatement(<<At(Run("skip")), Incr("n")>>)),
                   Read>>
            [] src.f = "emap" ->
                 \* mut n = 0  loop i in 0..3 { n = n + 1  map([1, 2], fn(x) { break }) }  n
                 <<Counter,
                   ForIn(1, "i", Range2(0, N),
                         BlockStatement(<<Incr("n"), Ho("map", BreakStatement)>>)),
                   Read>>
            [] src.f = "efilter" ->
                 \* mut n = 0  loop i in 0..3 { filter([1, 2], fn(x) { continue })  n = n + 1 }  n
                 <<Counter,
                   ForIn(1, "i", Range2(0, N),
                         BlockStatement(<<Ho("filter", ContinueStatement), Incr("n")>>)),
                   Read>>
            [] src.f = "enest" ->
                 \* fn stop() { break }  mut n = 0
                 \* loop i in 0..3 { loop j in 0..3 { n = n + 1  stop() } }  n
                 <<Signal("stop", BreakStatement), Counter,
                   ForIn(1, "i", Range2(0, N),
                         Block1(ForIn(2, "j", Range2(0, N),
                                      BlockStatement(<<Incr("n"), Run("stop")>>)))),
                   Read>>
            [] src.f = "einner" ->
                 \* fn own() { loop j in 0..3 { break }  7 }  mut n = 0
                 \* loop i in 0..3 { n = n + own() }  n
                 <<FnDeclaration("own", <<>>,
                                 BlockStatement(<<ForIn(2, "j", Range2(0, N),
                                                        Block1(BreakStatement)),
                                                  ExpressionStatement(Lit(7))>>)),
                   Counter,
                   ForIn(1, "i", Range2(0, N),
                         Block1(AssignStatement("n", Bin(Id("n"), "+", Call0(Id("own")))))),
                   Read>>
            [] src.f = "etop" ->         \* fn stop() { break }  stop()
                 <<Signal("stop", BreakStatement), Run("stop")>>
            [] src.f = "etopc" ->        \* fn skip() { continue }  skip()
                 <<Signal("skip", ContinueStatement), Run("skip")>>
    IN  <<FnDeclaration(src.id, <<>>, BlockStatement(Body)), Run(src.id)>>

HoFams == {"emap", "efilter"}

EscapeFams == {"ebreak", "econt", "enest", "einner", "etop", "etopc"} \cup HoFams

\* Every text has a function name of its own.
Escape(f, n, b) == Src(f, f \o Sprintf_d(n) \o Sprintf_d(b), n, b)

EscapeLines ==
    {Escape(f, MaxEnd, b) : f \in {"ebreak", "econt"}, b \in 0..1}
    \cup {Escape(f, MaxEnd, 0) : f \in EscapeFams \ {"ebreak", "econt"}}

EscapeFiles ==
    {Escape(f, n, b) : f \in EscapeFams \ HoFams, n \in 1..MaxEnd, b \in 0..(MaxEnd - 1)}

\* The texts that change an array while a loop visits it: src.a is the length
\* of the array a = [1, ..., src.a].  The body appends every element it is
\* given to the array seen, which is the text's value.  The text is the body
\* of a function named src.id, which is then called.
ParseVisit(src) ==
    LET N == src.a
        Push(name, e) == ExpressionStatement(CallExpression(Id("push"), <<Id(name), e>>))
        Pop(name) == ExpressionStatement(CallExpression(Id("pop"), <<Id(name)>>))
        See == Push("seen", Id("x"))
        Visit(iterable, body) == ForIn(1, "x", iterable, BlockStatement(body))
        Arrays == <<LetStatement("a", Upto(N)), LetStatement("seen", ArrayLiteral(<<>>))>>
        Seen == <<ExpressionStatement(Id("seen"))>>
        Body ==
          CASE src.f = "vpush" ->      \* loop x in a { push(a, x)  push(seen, x) }
                 Arrays \o <<Visit(Id("a"), <<Push("a", Id("x")), See>>)>> \o Seen
            [] src.f = "vpop" ->       \* loop x in a { pop(a)  push(seen, x) }
                 Arrays \o <<Visit(Id("a"), <<Pop("a"), See>>)>> \o Seen
            [] src.f = "vgrown" ->     \* push(a, 0)  loop x in a { push(a, x)  push(seen, x) }
                 Arrays \o <<Push("a", Lit(0)),
                             Visit(Id("a"), <<Push("a", Id("x")), See>>)>> \o Seen
            [] src.f = "vswap" ->      \* loop x in a { pop(a)  push(a, 99)  push(seen, x) }
                 Arrays \o <<Visit(Id("a"), <<Pop("a"), Push("a", Lit(99)), See>>)>> \o Seen
            [] src.f = "vset" ->       \* loop x in a { a[N - 1] = 99  push(seen, x) }
                 Arrays \o <<Visit(Id("a"), <<IndexAssignStatement(Id("a"), Lit(N - 1), Lit(99)),
                                             See>>)>> \o Seen
            [] src.f = "vonce" ->
                 \* mut c = 0  fn mk() { c = c + 1  return a }
                 \* loop x in mk() { push(seen, x) }  push(seen, c)  seen
                 Arrays \o <<MutStatement("c", Lit(0)),
                             FnDeclaration("mk", <<>>,
                                 BlockStatement(<<Incr("c"), ReturnStatement(<<Id("a")>>)>>)),
                             Visit(Call0(Id("mk")), <<See>>),
                             Push("seen", Id("c"))>> \o Seen
    IN  <<FnDeclaration(src.id, <<>>, BlockStatement(Body)),
          ExpressionStatement(Call0(Id(src.id)))>>

VisitFams == {"vpush", "vpop", "vgrown", "vswap", "vset", "vonce"}

\* Every text has a function name of its own.
Visiting(f, n) == Src(f, f \o Sprintf_d(n), n, 0)

VisitLines == {Visiting(f, MaxEnd) : f \in VisitFams}

VisitFiles == {Visiting(f, n) : f \in VisitFams, n \in 0..MaxEnd}

\* parser.Parse(lexer.New(text).Tokenize()) for the text src names.
Parse(src) ==
    Program(CASE src.f \in ScopeFams -> ParseScope(src)
              [] src.f \in ClosureFams -> ParseClosure(src)
              [] src.f \in LoopFams -> ParseLoop(src)
              [] src.f \in SignalFams -> ParseSignal(src)
              [] src.f \in MatchFams -> ParseMatch(src)
              [] src.f \in CallFams -> ParseCall(src)
              [] src.f \in ArrayFams -> ParseArray(src)
              [] src.f \in CompareFams -> ParseCompare(src)
              [] src.f \in EnvFams -> ParseEnv(src)
              [] src.f \in TestFams -> ParseTest(src)
              [] src.f \in BuiltinFams -> ParseBuiltin(src)
              [] src.f \in DeclFams -> ParseDecl(src)
              [] src.f \in IterFams -> ParseIter(src)
              [] src.f \in LogicFams -> ParseLogic(src)
              [] src.f \in RangeFams -> ParseRange(src)
              [] src.f \in EscapeFams -> ParseEscape(src)
              [] src.f \in VisitFams -> ParseVisit(src))

Lines(s) ==
    CASE s = "scope" -> ScopeLines
      [] s = "closure" -> ClosureLines
      [] s = "loop" -> LoopLines
      [] s = "signal" -> SignalLines
      [] s = "match" -> MatchLines
      [] s = "call" -> CallLines
      [] s = "array" -> ArrayLines
      [] s = "compare" -> CompareLines
      [] s = "env" -> EnvLines
      [] s = "test" -> {}
      [] s = "builtin" -> BuiltinLines
      [] s = "decl" -> DeclLines
      [] s = "iter" -> IterLines
      [] s = "logic" -> LogicLines
      [] s = "range" -> RangeLines
      [] s = "escape" -> EscapeLines
      [] s = "visit" -> VisitLines

Files(s) ==
    CASE s = "scope" -> ScopeFiles
      [] s = "closure" -> ClosureFiles
      [] s = "loop" -> LoopFiles
      [] s = "signal" -> SignalFiles
      [] s = "match" -> MatchFiles
      [] s = "call" -> CallFiles
      [] s = "array" -> ArrayFiles
      [] s = "compare" -> CompareFiles
      [] s = "env" -> EnvFiles
      [] s = "test" -> TestFiles
      [] s = "builtin" -> BuiltinFiles
      [] s = "decl" -> DeclFiles
      [] s = "iter" -> IterFiles
      [] s = "logic" -> LogicFiles
      [] s = "range" -> RangeFiles
      [] s = "escape" -> EscapeFiles
      [] s = "visit" -> VisitFiles

Suites == {"scope", "closure", "loop", "signal", "match", "call", "array", "compare",
           "env", "test", "builtin", "decl", "iter", "logic", "range", "escape", "visit"}

\* ------------------------------------------------------------------------
\* Lexer (lexer.go, token.go)
\* ------------------------------------------------------------------------
\* A source text and a token's literal are sequences of one-character
\* strings; NUL is the byte 0 that peek and peekNext return past the end.
\* start and current count characters as the Go indices do, so the Go
\* source[i] is source[i + 1].
NUL == ""

RECURSIVE Text(_)
Text(chars) == IF chars = <<>> THEN "" ELSE Head(chars) \o Text(Tail(chars))

keywords ==
    [w \in {"let", "mut", "fn", "return", "if", "elif", "else", "loop", "in", "break",
            "continue", "match", "true", "false", "none", "test", "import"} |->
        CASE w = "let" -> "LET" [] w = "mut" -> "MUT" [] w = "fn" -> "FN"
          [] w = "return" -> "RETURN" [] w = "if" -> "IF" [] w = "elif" -> "ELIF"
          [] w = "else" -> "ELSE" [] w = "loop" -> "LOOP" [] w = "in" -> "IN"
          [] w = "break" -> "BREAK" [] w = "continue" -> "CONTINUE"
          [] w = "match" -> "MATCH" [] w = "true" -> "TRUE" [] w = "false" -> "FALSE"
          [] w = "none" -> "NONE" [] w = "test" -> "TEST" [] w = "import" -> "IMPORT"]

Token(type, literal, line, column) ==
    [Type |-> type, Literal |-> literal, Line |-> line, Column |-> column]

NoLexer == [phase |-> "none"]

Lexer_New(source) ==
    [phase |-> "scan", source |-> source, tokens |-> <<>>, start |-> 0, current |-> 0,
     line |-> 1, column |-> 1]

isDigit(ch) == ch \in {"0", "1", "2", "3", "4", "5", "6", "7", "8", "9"}

isAlpha(ch) ==
    ch \in {"a", "b", "c", "d", "e", "f", "g", "h", "i", "j", "k", "l", "m", "n", "o",
            "p", "q", "r", "s", "t", "u", "v", "w", "x", "y", "z", "_",
            "A", "B", "C", "D", "E", "F", "G", "H", "I", "J", "K", "L", "M", "N", "O",
            "P", "Q", "R", "S", "T", "U", "V", "W", "X", "Y", "Z"}

isAlphaNumeric(ch) == isAlpha(ch) \/ isDigit(ch)

Lexer_advance(l) == [l EXCEPT !.current = @ + 1, !.column = @ + 1]

Lexer_peek(l) == IF l.current >= Len(l.source) THEN NUL ELSE l.source[l.current + 1]

Lexer_peekNext(l) ==
    IF l.current + 1 >= Len(l.source) THEN NUL ELSE l.source[l.current + 2]

Lexer_isAtEnd(l) == l.current >= Len(l.source)

addToken(l, tokenType, literal) ==
    [l EXCEPT !.tokens = Append(@, Token(tokenType, literal, l.line,
                                         l.column - Len(literal)))]

\* The Go source[from:to].
Slice(l, from, to) == SubSeq(l.source, from + 1, to)

scanNumber(l) ==
    LET RECURSIVE digits(_)
        digits(m) == IF isDigit(Lexer_peek(m)) THEN digits(Lexer_advance(m)) ELSE m
        whole == digits(l)
    IN  IF Lexer_peek(whole) = "." /\ isDigit(Lexer_peekNext(whole))
        THEN LET all == digits(Lexer_advance(whole))
             IN  addToken(all, "FLOAT", Slice(all, all.start, all.current))
        ELSE addToken(whole, "INT", Slice(whole, whole.start, whole.current))

scanString(l) ==
    LET RECURSIVE body(_)
        body(m) ==
            IF ~Lexer_isAtEnd(m) /\ Lexer_peek(m) # "\""
            THEN body(Lexer_advance(IF Lexer_peek(m) = "\n"
                                    THEN [m EXCEPT !.line = @ + 1, !.column = 0]
                                    ELSE m))
            ELSE m
        inner == body(Lexer_advance(l))
    IN  IF Lexer_isAtEnd(inner) THEN inner
        ELSE LET closed == Lexer_advance(inner)
             IN  addToken(closed, "STRING",
                          Slice(closed, closed.start + 1, closed.current - 1))

scanIdentifier(l) ==
    LET RECURSIVE word(_)
        word(m) == IF isAlphaNumeric(Lexer_peek(m)) THEN word(Lexer_advance(m)) ELSE m
        end == word(l)
        literal == Slice(end, end.start, end.current)
    IN  addToken(end, IF Text(literal) \in DOMAIN keywords THEN keywords[Text(literal)]
                      ELSE "IDENT",
                 literal)

twoCharTokens ==
    [w \in {"==", "!=", "<=", ">=", "&&", "||", "|>", "..", "=>", "??", "?."} |->
        CASE w = "==" -> "EQ" [] w = "!=" -> "NEQ" [] w = "<=" -> "LTE" [] w = ">=" -> "GTE"
          [] w = "&&" -> "AND" [] w = "||" -> "OR" [] w = "|>" -> "PIPE"
          [] w = ".." -> "DOTDOT" [] w = "=>" -> "ARROW" [] w = "??" -> "COALESCE"
          [] w = "?." -> "QMARK"]

oneCharTokens ==
    [c \in {"+", "-", "*", "/", "%", "=", "<", ">", "!", "(", ")", "{", "}", "[", "]",
            ",", ":", ".", "?"} |->
        CASE c = "+" -> "PLUS" [] c = "-" -> "MINUS" [] c = "*" -> "STAR"
          [] c = "/" -> "SLASH" [] c = "%" -> "PERCENT" [] c = "=" -> "ASSIGN"
          [] c = "<" -> "LT" [] c = ">" -> "GT" [] c = "!" -> "NOT"
          [] c = "(" -> "LPAREN" [] c = ")" -> "RPAREN" [] c = "{" -> "LBRACE"
          [] c = "}" -> "RBRACE" [] c = "[" -> "LBRACKET" [] c = "]" -> "RBRACKET"
          [] c = "," -> "COMMA" [] c = ":" -> "COLON" [] c = "." -> "DOT"
          [] c = "?" -> "QMARK"]

\* One iteration of the loop of Tokenize.
Scan(l0) ==
    LET l == [l0 EXCEPT !.start = l0.current]
        ch == Lexer_peek(l)
        twoChar == ch \o Lexer_peekNext(l)
        RECURSIVE comment(_)
        comment(m) ==
            IF ~Lexer_isAtEnd(m) /\ Lexer_peek(m) # "\n" THEN comment(Lexer_advance(m))
            ELSE m
    IN  IF ch \in {" ", "\t", "\r"} THEN Lexer_advance(l)
        ELSE IF ch = "\n"
        THEN [addToken(Lexer_advance(l), "NEWLINE", <<"\n">>) EXCEPT !.line = @ + 1,
                                                                 !.column = 1]
        ELSE IF ch = "/" /\ Lexer_peekNext(l) = "/"
        THEN comment(Lexer_advance(Lexer_advance(l)))
        ELSE IF isDigit(ch) THEN scanNumber(l)
        ELSE IF ch = "\"" THEN scanString(l)
        ELSE IF isAlpha(ch) THEN scanIdentifier(l)
        ELSE IF twoChar \in DOMAIN twoCharTokens
        THEN addToken(Lexer_advance(Lexer_advance(l)), twoCharTokens[twoChar],
                      <<ch, Lexer_peekNext(l)>>)
        ELSE IF ch \in DOMAIN oneCharTokens
        THEN addToken(Lexer_advance(l), oneCharTokens[ch], <<ch>>)
        ELSE Lexer_advance(l)

\* ------------------------------------------------------------------------
\* Parser (parser.go, precedence.go)
\* ------------------------------------------------------------------------
\* Every parse function takes the parser and returns the parser and the node
\* it built, Nil for a nil node.  current counts tokens as the Go index does,
\* so the Go tokens[i] is tokens[i + 1].  A statement's pos is the index of
\* its first token.
NoParser == [phase |-> "none"]

Parser_New(tokens) ==
    [phase |-> "parse", tokens |-> tokens, current |-> 0, errors |-> <<>>,
     program |-> Program(<<>>)]

Parsed(p, node) == [p |-> p, node |-> node]

precedences ==
    <<"PREC_LOWEST", "PREC_PIPELINE", "PREC_COALESCE", "PREC_OR", "PREC_AND",
      "PREC_EQUALITY", "PREC_COMPARISON", "PREC_RANGE", "PREC_ADDITION",
      "PREC_MULTIPLY", "PREC_UNARY", "PREC_CALL">>

\* The value iota gives the precedence level.
PREC(level) == (CHOOSE i \in DOMAIN precedences : precedences[i] = level) - 1

Parser_peek(p) ==
    IF p.current >= Len(p.tokens) THEN Token("EOF", <<>>, 0, 0)
    ELSE p.tokens[p.current + 1]

Parser_peekNext(p) ==
    IF p.current + 1 >= Len(p.tokens) THEN Token("EOF", <<>>, 0, 0)
    ELSE p.tokens[p.current + 2]

Parser_advance(p) == [p EXCEPT !.current = @ + 1]

addError(p, msg) == [p EXCEPT !.errors = Append(@, msg)]

\* Returns the parser and whether the token matched.
expect(p, expected) ==
    IF Parser_peek(p).Type = expected THEN [p |-> Parser_advance(p), ok |-> TRUE]
    ELSE [p |-> addError(p, "expected %v, got %v at %s"), ok |-> FALSE]

Parser_isAtEnd(p) == Parser_peek(p).Type = "EOF"

RECURSIVE skipNewlines(_)
skipNewlines(p) ==
    IF Parser_peek(p).Type = "NEWLINE" THEN skipNewlines(Parser_advance(p)) ELSE p

\* No function of the parser calls synchronize.
RECURSIVE synchronize(_)
synchronize(p) ==
    IF Parser_isAtEnd(p) THEN p
    ELSE IF Parser_peek(p).Type = "NEWLINE" THEN Parser_advance(p)
    ELSE IF Parser_peek(p).Type \in {"LET", "MUT", "FN", "RETURN", "IF", "LOOP", "MATCH",
                                     "TEST"}
    THEN p
    ELSE synchronize(Parser_advance(p))

\* The model follows a loop of the parser for as long as there are fewer than
\* MaxErrors diagnostics.
Capped(p) == Len(p.errors) >= MaxErrors

getPrefixParser(tokenType) ==
    CASE tokenType = "INT" -> "parseIntegerLiteral"
      [] tokenType = "FLOAT" -> "parseFloatLiteral"
      [] tokenType = "STRING" -> "parseStringLiteral"
      [] tokenType \in {"TRUE", "FALSE"} -> "parseBooleanLiteral"
      [] tokenType = "NONE" -> "parseNoneLiteral"
      [] tokenType = "IDENT" -> "parseIdentifier"
      [] tokenType = "LPAREN" -> "parseGrouping"
      [] tokenType = "LBRACKET" -> "parseArrayLiteral"
      [] tokenType = "LBRACE" -> "parseMapLiteral"
      [] tokenType = "FN" -> "parseFnLiteral"
      [] tokenType \in {"NOT", "MINUS"} -> "parseUnaryExpression"
      [] OTHER -> "nil"

getInfixParser(tokenType) ==
    CASE tokenType \in {"PLUS", "MINUS", "STAR", "SLASH", "PERCENT", "LT", "GT", "LTE",
                        "GTE", "EQ", "NEQ", "AND", "OR"} -> "parseBinaryExpression"
      [] tokenType = "LPAREN" -> "parseCallExpression"
      [] tokenType = "LBRACKET" -> "parseIndexExpression"
      [] tokenType = "DOT" -> "parseDotExpression"
      [] tokenType = "QMARK" -> "parseSafeAccessExpression"
      [] tokenType = "PIPE" -> "parsePipelineExpression"
      [] tokenType = "DOTDOT" -> "parseRangeExpression"
      [] tokenType = "COALESCE" -> "parseCoalesceExpression"
      [] OTHER -> "nil"

getPrecedence(tokenType) ==
    CASE tokenType = "PIPE" -> PREC("PREC_PIPELINE")
      [] tokenType = "COALESCE" -> PREC("PREC_COALESCE")
      [] tokenType = "OR" -> PREC("PREC_OR")
      [] tokenType = "AND" -> PREC("PREC_AND")
      [] tokenType \in {"EQ", "NEQ"} -> PREC("PREC_EQUALITY")
      [] tokenType \in {"LT", "GT", "LTE", "GTE"} -> PREC("PREC_COMPARISON")
      [] tokenType = "DOTDOT" -> PREC("PREC_RANGE")
      [] tokenType \in {"PLUS", "MINUS"} -> PREC("PREC_ADDITION")
      [] tokenType \in {"STAR", "SLASH", "PERCENT"} -> PREC("PREC_MULTIPLY")
      [] tokenType \in {"LPAREN", "LBRACKET", "DOT", "QMARK"} -> PREC("PREC_CALL")
      [] OTHER -> PREC("PREC_LOWEST")

\* fmt.Sscanf(literal, "%d", &value) on the digits the lexer scanned.
RECURSIVE Sscanf(_, _)
Sscanf(literal, value) ==
    IF literal = <<>> THEN value
    ELSE Sscanf(Tail(literal),
                value * 10 + (CHOOSE d \in 0..9 : ToString(d) = Head(literal)))

\* A call of parseStatement, parseBlock or parseExpression (with its
\* precedence) from a parse function: parse("parseBlock", p, Nil) is the Go
\* p.parse("parseBlock", , Nil).
RECURSIVE parse(_, _, _)

parseIntegerLiteral(p) ==
    Parsed(Parser_advance(p), IntegerLiteral(Sscanf(Parser_peek(p).Literal, 0)))

\* The floats of the model are halves: the conversion is exact for a fraction
\* of 0 or 5.
parseFloatLiteral(p) ==
    LET literal == Parser_peek(p).Literal
        dot == CHOOSE i \in DOMAIN literal : literal[i] = "."
    IN  Parsed(Parser_advance(p),
               FloatLiteral(2 * Sscanf(SubSeq(literal, 1, dot - 1), 0)
                            + (IF literal[dot + 1] = "5" THEN 1 ELSE 0)))

parseStringLiteral(p) ==
    Parsed(Parser_advance(p), StringLiteral(Text(Parser_peek(p).Literal)))

parseBooleanLiteral(p) ==
    Parsed(Parser_advance(p), BooleanLiteral(Parser_peek(p).Type = "TRUE"))

parseNoneLiteral(p) == Parsed(Parser_advance(p), NoneLiteral)

parseIdentifier(p) == Parsed(Parser_advance(p), Identifier(Text(Parser_peek(p).Literal)))

parseGrouping(p) ==
    LET expr == parse("parseExpression", Parser_advance(p), PREC("PREC_LOWEST"))
    IN  Parsed(expect(expr.p, "RPAREN").p, expr.node)

\* The loop of parseArrayLiteral and parseCallExpression up to the closing
\* token.
RECURSIVE parseElements(_, _, _)
parseElements(p, closing, elements) ==
    IF Parser_peek(p).Type # closing /\ ~Parser_isAtEnd(p) /\ ~Capped(p)
    THEN LET elem == parse("parseExpression", p, PREC("PREC_LOWEST"))
         IN  parseElements(IF Parser_peek(elem.p).Type = "COMMA"
                           THEN Parser_advance(elem.p) ELSE elem.p,
                           closing,
                           IF elem.node # Nil THEN Append(elements, elem.node)
                           ELSE elements)
    ELSE Parsed(p, elements)

parseArrayLiteral(p) ==
    LET elements == parseElements(Parser_advance(p), "RBRACKET", <<>>)
    IN  Parsed(expect(elements.p, "RBRACKET").p, ArrayLiteral(elements.node))

parseMapLiteral(p) ==
    LET RECURSIVE entries(_, _, _)
        entries(q, keys, values) ==
            IF Parser_peek(q).Type # "RBRACE" /\ ~Parser_isAtEnd(q)
            THEN LET key == parse("parseExpression", q, PREC("PREC_LOWEST"))
                     colon == expect(key.p, "COLON")
                     value == parse("parseExpression", colon.p, PREC("PREC_LOWEST"))
                 IN  IF key.node = Nil THEN Parsed(key.p, Nil)
                     ELSE IF ~colon.ok THEN Parsed(colon.p, Nil)
                     ELSE IF value.node = Nil THEN Parsed(value.p, Nil)
                     ELSE entries(IF Parser_peek(value.p).Type = "COMMA"
                                  THEN Parser_advance(value.p) ELSE value.p,
                                  Append(keys, key.node), Append(values, value.node))
            ELSE Parsed(expect(q, "RBRACE").p, MapLiteral(keys, values))
    IN  entries(Parser_advance(p), <<>>, <<>>)

\* The parameter loop of parseFnDeclaration and parseFnLiteral.
RECURSIVE parseParams(_, _)
parseParams(p, params) ==
    IF Parser_peek(p).Type # "RPAREN" /\ ~Parser_isAtEnd(p)
    THEN LET ident == expect(p, "IDENT")
         IN  IF ~ident.ok THEN [p |-> ident.p, ok |-> FALSE, params |-> params]
             ELSE parseParams(IF Parser_peek(ident.p).Type = "COMMA"
                              THEN Parser_advance(ident.p) ELSE ident.p,
                              Append(params, Text(ident.p.tokens[ident.p.current].Literal)))
    ELSE [p |-> p, ok |-> TRUE, params |-> params]

parseFnLiteral(p) ==
    LET params == parseParams(expect(Parser_advance(p), "LPAREN").p, <<>>)
        body == parse("parseBlock", expect(params.p, "RPAREN").p, Nil)
    IN  IF ~params.ok THEN Parsed(params.p, Nil)
        ELSE IF body.node = Nil THEN Parsed(body.p, Nil)
        ELSE Parsed(body.p, FnLiteral(params.params, body.node))

parseUnaryExpression(p) ==
    LET tok == Parser_peek(p)
        operand == parse("parseExpression", Parser_advance(p), PREC("PREC_UNARY"))
    IN  IF operand.node = Nil THEN Parsed(operand.p, Nil)
        ELSE Parsed(operand.p, UnaryExpression(Text(tok.Literal), operand.node))

parseBinaryExpression(p, left) ==
    LET tok == Parser_peek(p)
        right == parse("parseExpression", Parser_advance(p), getPrecedence(tok.Type))
    IN  IF right.node = Nil THEN Parsed(right.p, Nil)
        ELSE Parsed(right.p, BinaryExpression(left, Text(tok.Literal), right.node))

parseCallExpression(p, left) ==
    LET args == parseElements(Parser_advance(p), "RPAREN", <<>>)
    IN  Parsed(expect(args.p, "RPAREN").p, CallExpression(left, args.node))

parseIndexExpression(p, left) ==
    LET index == parse("parseExpression", Parser_advance(p), PREC("PREC_LOWEST"))
    IN  IF index.node = Nil THEN Parsed(index.p, Nil)
        ELSE Parsed(expect(index.p, "RBRACKET").p, IndexExpression(left, index.node))

parseDotExpression(p, left) ==
    LET ident == expect(Parser_advance(p), "IDENT")
    IN  IF ~ident.ok THEN Parsed(ident.p, Nil)
        ELSE Parsed(ident.p,
                    DotExpression(left, Text(ident.p.tokens[ident.p.current].Literal)))

parseSafeAccessExpression(p, left) ==
    LET dot == expect(Parser_advance(p), "DOT")
        ident == expect(dot.p, "IDENT")
    IN  IF ~dot.ok THEN Parsed(dot.p, Nil)
        ELSE IF ~ident.ok THEN Parsed(ident.p, Nil)
        ELSE Parsed(ident.p,
                    SafeAccessExpression(left,
                                         Text(ident.p.tokens[ident.p.current].Literal)))

parsePipelineExpression(p, left) ==
    LET right == parse("parseExpression", Parser_advance(p), PREC("PREC_PIPELINE"))
    IN  IF right.node = Nil THEN Parsed(right.p, Nil)
        ELSE IF right.node.k = "Call"
        THEN Parsed(right.p, PipelineExpression(left, right.node))
        ELSE Parsed(addError(right.p, "pipeline right-hand side must be a function call"),
                    Nil)

parseRangeExpression(p, left) ==
    LET end == parse("parseExpression", Parser_advance(p), PREC("PREC_RANGE"))
        step == parse("parseExpression", Parser_advance(end.p), PREC("PREC_RANGE"))
    IN  IF end.node = Nil THEN Parsed(end.p, Nil)
        ELSE IF Parser_peek(end.p).Type # "COLON"
        THEN Parsed(end.p, RangeExpression(left, end.node, Nil))
        ELSE IF step.node = Nil THEN Parsed(step.p, Nil)
        ELSE Parsed(step.p, RangeExpression(left, end.node, step.node))

parseCoalesceExpression(p, left) ==
    LET right == parse("parseExpression", Parser_advance(p), PREC("PREC_COALESCE"))
    IN  IF right.node = Nil THEN Parsed(right.p, Nil)
        ELSE Parsed(right.p, CoalesceExpression(left, right.node))

parseExpression(p, precedence) ==
    LET prefix == getPrefixParser(Parser_peek(p).Type)
        left ==
            CASE prefix = "parseIntegerLiteral" -> parseIntegerLiteral(p)
              [] prefix = "parseFloatLiteral" -> parseFloatLiteral(p)
              [] prefix = "parseStringLiteral" -> parseStringLiteral(p)
              [] prefix = "parseBooleanLiteral" -> parseBooleanLiteral(p)
              [] prefix = "parseNoneLiteral" -> parseNoneLiteral(p)
              [] prefix = "parseIdentifier" -> parseIdentifier(p)
              [] prefix = "parseGrouping" -> parseGrouping(p)
              [] prefix = "parseArrayLiteral" -> parseArrayLiteral(p)
              [] prefix = "parseMapLiteral" -> parseMapLiteral(p)
              [] prefix = "parseFnLiteral" -> parseFnLiteral(p)
              [] prefix = "parseUnaryExpression" -> parseUnaryExpression(p)
        RECURSIVE infixes(_, _)
        infixes(q, node) ==
            LET infix == getInfixParser(Parser_peek(q).Type)
                next ==
                    CASE infix = "parseBinaryExpression" -> parseBinaryExpression(q, node)
                      [] infix = "parseCallExpression" -> parseCallExpression(q, node)
                      [] infix = "parseIndexExpression" -> parseIndexExpression(q, node)
                      [] infix = "parseDotExpression" -> parseDotExpression(q, node)
                      [] infix = "parseSafeAccessExpression" ->
                             parseSafeAccessExpression(q, node)
                      [] infix = "parsePipelineExpression" ->
                             parsePipelineExpression(q, node)
                      [] infix = "parseRangeExpression" -> parseRangeExpression(q, node)
                      [] infix = "parseCoalesceExpression" ->
                             parseCoalesceExpression(q, node)
            IN  IF precedence < getPrecedence(Parser_peek(q).Type)
                THEN IF infix = "nil" THEN Parsed(q, node)
                     ELSE IF next.node = Nil THEN Parsed(next.p, Nil)
                     ELSE infixes(next.p, next.node)
                ELSE Parsed(q, node)
    IN  IF prefix = "nil" THEN Parsed(addError(p, "no prefix parser for %v"), Nil)
        ELSE IF left.node = Nil THEN Parsed(left.p, Nil)
        ELSE infixes(left.p, left.node)

parseLetStatement(p) ==
    LET ident == expect(Parser_advance(p), "IDENT")
        assign == expect(ident.p, "ASSIGN")
        value == parse("parseExpression", assign.p, PREC("PREC_LOWEST"))
    IN  IF ~ident.ok THEN Parsed(ident.p, Nil)
        ELSE IF ~assign.ok THEN Parsed(assign.p, Nil)
        ELSE IF value.node = Nil THEN Parsed(value.p, Nil)
        ELSE Parsed(value.p,
                    LetStatement(Text(ident.p.tokens[ident.p.current].Literal), value.node))

parseMutStatement(p) ==
    LET ident == expect(Parser_advance(p), "IDENT")
        assign == expect(ident.p, "ASSIGN")
        value == parse("parseExpression", assign.p, PREC("PREC_LOWEST"))
    IN  IF ~ident.ok THEN Parsed(ident.p, Nil)
        ELSE IF ~assign.ok THEN Parsed(assign.p, Nil)
        ELSE IF value.node = Nil THEN Parsed(value.p, Nil)
        ELSE Parsed(value.p,
                    MutStatement(Text(ident.p.tokens[ident.p.current].Literal), value.node))

parseFnDeclaration(p) ==
    LET ident == expect(Parser_advance(p), "IDENT")
        lparen == expect(ident.p, "LPAREN")
        params == parseParams(lparen.p, <<>>)
        rparen == expect(params.p, "RPAREN")
        body == parse("parseBlock", rparen.p, Nil)
    IN  IF ~ident.ok THEN Parsed(ident.p, Nil)
        ELSE IF ~lparen.ok THEN Parsed(lparen.p, Nil)
        ELSE IF ~params.ok THEN Parsed(params.p, Nil)
        ELSE IF ~rparen.ok THEN Parsed(rparen.p, Nil)
        ELSE IF body.node = Nil THEN Parsed(body.p, Nil)
        ELSE Parsed(body.p,
                    FnDeclaration(Text(ident.p.tokens[ident.p.current].Literal),
                                  params.params, body.node))

parseReturnStatement(p) ==
    LET RECURSIVE more(_, _)
        more(q, values) ==
            IF Parser_peek(q).Type = "COMMA"
            THEN LET val == parse("parseExpression", Parser_advance(q), PREC("PREC_LOWEST"))
                 IN  more(val.p, IF val.node # Nil THEN Append(values, val.node)
                                 ELSE values)
            ELSE Parsed(q, ReturnStatement(values))
        p1 == Parser_advance(p)
        val == parse("parseExpression", p1, PREC("PREC_LOWEST"))
    IN  IF Parser_peek(p1).Type \notin {"NEWLINE", "EOF", "RBRACE"}
        THEN IF val.node # Nil THEN more(val.p, <<val.node>>)
             ELSE Parsed(val.p, ReturnStatement(<<>>))
        ELSE Parsed(p1, ReturnStatement(<<>>))

parseIfStatement(p) ==
    LET condition == parse("parseExpression", Parser_advance(p), PREC("PREC_LOWEST"))
        consequence == parse("parseBlock", condition.p, Nil)
        \* The elif loop: the parser and the clauses, ok is FALSE for return nil.
        RECURSIVE elifs(_, _)
        elifs(q, clauses) ==
            IF Parser_peek(q).Type = "ELIF"
            THEN LET elifCond == parse("parseExpression", Parser_advance(q),
                                       PREC("PREC_LOWEST"))
                     elifBody == parse("parseBlock", elifCond.p, Nil)
                 IN  IF elifCond.node = Nil
                     THEN [p |-> elifCond.p, ok |-> FALSE, clauses |-> clauses]
                     ELSE IF elifBody.node = Nil
                     THEN [p |-> elifBody.p, ok |-> FALSE, clauses |-> clauses]
                     ELSE elifs(elifBody.p,
                                Append(clauses, ElifClause(elifCond.node, elifBody.node)))
            ELSE [p |-> q, ok |-> TRUE, clauses |-> clauses]
        elifClauses == elifs(consequence.p, <<>>)
        alternative == parse("parseBlock", Parser_advance(elifClauses.p), Nil)
    IN  IF condition.node = Nil THEN Parsed(condition.p, Nil)
        ELSE IF consequence.node = Nil THEN Parsed(consequence.p, Nil)
        ELSE IF ~elifClauses.ok THEN Parsed(elifClauses.p, Nil)
        ELSE IF Parser_peek(elifClauses.p).Type # "ELSE"
        THEN Parsed(elifClauses.p,
                    IfStatement(condition.node, consequence.node, elifClauses.clauses, Nil))
        ELSE IF alternative.node = Nil THEN Parsed(alternative.p, Nil)
        ELSE Parsed(alternative.p,
                    IfStatement(condition.node, consequence.node, elifClauses.clauses,
                                alternative.node))

parseLoopStatement(p) ==
    LET p1 == Parser_advance(p)
        forIn == Parser_peek(p1).Type = "IDENT" /\ Parser_peekNext(p1).Type = "IN"
        iterable == parse("parseExpression", Parser_advance(Parser_advance(p1)),
                          PREC("PREC_LOWEST"))
        condition == parse("parseExpression", p1, PREC("PREC_LOWEST"))
        head ==
            IF forIn
            THEN [p |-> iterable.p, ok |-> iterable.node # Nil, condition |-> Nil,
                  iterator |-> Text(Parser_peek(p1).Literal), iterable |-> iterable.node]
            ELSE IF Parser_peek(p1).Type # "LBRACE"
            THEN [p |-> condition.p, ok |-> TRUE, condition |-> condition.node,
                  iterator |-> "", iterable |-> Nil]
            ELSE [p |-> p1, ok |-> TRUE, condition |-> Nil, iterator |-> "",
                  iterable |-> Nil]
        body == parse("parseBlock", head.p, Nil)
    IN  IF ~head.ok THEN Parsed(head.p, Nil)
        ELSE IF body.node = Nil THEN Parsed(body.p, Nil)
        ELSE Parsed(body.p,
                    LoopStatement(p.current, head.condition, head.iterator, head.iterable,
                                  body.node))

parseBreakStatement(p) == Parsed(Parser_advance(p), BreakStatement)

parseContinueStatement(p) == Parsed(Parser_advance(p), ContinueStatement)

parseMatchStatement(p) ==
    LET subject == parse("parseExpression", Parser_advance(p), PREC("PREC_LOWEST"))
        lbrace == expect(subject.p, "LBRACE")
        \* The arm loop: the parser and the arms, ok is FALSE for return nil.
        RECURSIVE armsFrom(_, _)
        armsFrom(q, arms) ==
            IF Parser_peek(q).Type # "RBRACE" /\ ~Parser_isAtEnd(q)
            THEN LET pattern == parse("parseExpression", q, PREC("PREC_LOWEST"))
                     guarded == Parser_peek(pattern.p).Type = "IF"
                     guard == IF guarded
                              THEN parse("parseExpression", Parser_advance(pattern.p),
                                                   PREC("PREC_LOWEST"))
                              ELSE Parsed(pattern.p, Nil)
                     arrow == expect(guard.p, "ARROW")
                     bodyExpr == parse("parseExpression", arrow.p, PREC("PREC_LOWEST"))
                 IN  IF pattern.node = Nil
                     THEN [p |-> pattern.p, ok |-> FALSE, arms |-> arms]
                     ELSE IF guarded /\ guard.node = Nil
                     THEN [p |-> guard.p, ok |-> FALSE, arms |-> arms]
                     ELSE IF ~arrow.ok THEN [p |-> arrow.p, ok |-> FALSE, arms |-> arms]
                     ELSE IF bodyExpr.node = Nil
                     THEN [p |-> bodyExpr.p, ok |-> FALSE, arms |-> arms]
                     ELSE armsFrom(skipNewlines(bodyExpr.p),
                                   Append(arms,
                                          MatchArm(pattern.node, guard.node,
                                                   Block1(ExpressionStatement(bodyExpr.node)))))
            ELSE [p |-> q, ok |-> TRUE, arms |-> arms]
        arms == armsFrom(skipNewlines(lbrace.p), <<>>)
    IN  IF subject.node = Nil THEN Parsed(subject.p, Nil)
        ELSE IF ~lbrace.ok THEN Parsed(lbrace.p, Nil)
        ELSE IF ~arms.ok THEN Parsed(arms.p, Nil)
        ELSE Parsed(expect(arms.p, "RBRACE").p,
                    MatchStatement(p.current, subject.node, arms.arms))

parseTestBlock(p) ==
    LET description == expect(Parser_advance(p), "STRING")
        body == parse("parseBlock", description.p, Nil)
    IN  IF ~description.ok THEN Parsed(description.p, Nil)
        ELSE IF body.node = Nil THEN Parsed(body.p, Nil)
        ELSE Parsed(body.p,
                    TestBlock(Text(description.p.tokens[description.p.current].Literal),
                              body.node))

parseExpressionStatement(p) ==
    LET expr == parse("parseExpression", p, PREC("PREC_LOWEST"))
    IN  IF expr.node = Nil THEN Parsed(expr.p, Nil)
        ELSE Parsed(expr.p, ExpressionStatement(expr.node))

parseExpressionOrAssignment(p) ==
    LET expr == parse("parseExpression", p, PREC("PREC_LOWEST"))
        value == parse("parseExpression", Parser_advance(expr.p), PREC("PREC_LOWEST"))
    IN  IF expr.node = Nil THEN Parsed(expr.p, Nil)
        ELSE IF Parser_peek(expr.p).Type = "ASSIGN"
        THEN CASE expr.node.k = "Ident" ->
                    Parsed(value.p, AssignStatement(expr.node.name, value.node))
               [] expr.node.k = "Index" ->
                    Parsed(value.p, IndexAssignStatement(expr.node.left, expr.node.index,
                                                         value.node))
               [] OTHER -> Parsed(addError(value.p, "invalid assignment target"), Nil)
        ELSE Parsed(expr.p, ExpressionStatement(expr.node))

parseBlock(p) ==
    LET lbrace == expect(p, "LBRACE")
        RECURSIVE statements(_, _)
        statements(q, stmts) ==
            IF ~Parser_isAtEnd(q) /\ Parser_peek(q).Type # "RBRACE" /\ ~Capped(q)
            THEN LET stmt == parse("parseStatement", q, Nil)
                 IN  statements(skipNewlines(stmt.p),
                                IF stmt.node # Nil THEN Append(stmts, stmt.node) ELSE stmts)
            ELSE Parsed(q, stmts)
        block == statements(skipNewlines(lbrace.p), <<>>)
    IN  IF ~lbrace.ok THEN Parsed(lbrace.p, Nil)
        ELSE Parsed(expect(block.p, "RBRACE").p, BlockStatement(block.node))

parseStatement(p) ==
    LET type == Parser_peek(p).Type
    IN  CASE type = "LET" -> parseLetStatement(p)
          [] type = "MUT" -> parseMutStatement(p)
          [] type = "FN" -> IF Parser_peekNext(p).Type = "IDENT" THEN parseFnDeclaration(p)
                            ELSE parseExpressionStatement(p)
          [] type = "RETURN" -> parseReturnStatement(p)
          [] type = "IF" -> parseIfStatement(p)
          [] type = "LOOP" -> parseLoopStatement(p)
          [] type = "BREAK" -> parseBreakStatement(p)
          [] type = "CONTINUE" -> parseContinueStatement(p)
          [] type = "MATCH" -> parseMatchStatement(p)
          [] type = "TEST" -> parseTestBlock(p)
          [] OTHER -> parseExpressionOrAssignment(p)

parse(fn, p, precedence) ==
    CASE fn = "parseStatement" -> parseStatement(p)
      [] fn = "parseBlock" -> parseBlock(p)
      [] fn = "parseExpression" -> parseExpression(p, precedence)

\* One iteration of the loop of parseProgram.
parseProgram(p0) ==
    LET p == skipNewlines(p0)
        stmt == parse("parseStatement", p, Nil)
    IN  IF Parser_isAtEnd(p) THEN [p EXCEPT !.phase = "done"]
        ELSE [stmt.p EXCEPT !.program.stmts = IF stmt.node # Nil THEN Append(@, stmt.node)
                                              ELSE @,
                            !.phase = IF Capped(stmt.p) THEN "capped" ELSE "parse"]

\* ------------------------------------------------------------------------
\* Entry points (main.go, repl.go)
\* ------------------------------------------------------------------------
HONames == <<"filter", "map", "reduce", "sort", "keys", "values", "has", "reverse">>

RegisterHOBuiltins(st, env) == registerFrom(HONames, 1, env, st)

Objects(st) ==
    [envs |-> st.envs, fns |-> st.fns, arrs |-> st.arrs, data |-> st.data, mem |-> st.mem]

\* The evaluator's state at the start of a top-level evaluation.
Running(h) ==
    [envs |-> h.envs, fns |-> h.fns, arrs |-> h.arrs, data |-> h.data, mem |-> h.mem,
     trace |-> <<>>, fuel |-> MaxIter]

Outcome(cmd, src, r) ==
    [cmd |-> cmd, src |-> src, sig |-> r.sig, msg |-> r.msg, val |-> r.val,
     exit |-> IF r.sig = "ok" THEN 0 ELSE 1]

Init ==
    /\ mode = "idle"
    /\ heap = EmptyHeap
    /\ before = EmptyHeap
    /\ root = 0
    /\ hist = <<>>
    /\ trace = <<>>
    /\ suite \in Suites
    /\ lexer = NoLexer
    /\ parser = NoParser
    /\ runner = NoRunner

\* repl.Start up to its first prompt.
ReplStart ==
    /\ mode = "idle"
    /\ LET st == NewEnvironment(EmptyHeap)
           env == Len(st.envs)
       IN  /\ heap' = RegisterHOBuiltins(RegisterBuiltins(st, env), env)
           /\ root' = env
    /\ mode' = "repl"
    /\ UNCHANGED <<before, hist, trace, suite, lexer, parser, runner>>

\* One iteration of the REPL loop on a line that parses without errors.
ReplTurn(src) ==
    /\ mode = "repl"
    /\ Len(hist) < MaxTurns
    /\ LET r == Eval(Parse(src), root, Running(heap))
       IN  /\ heap' = Objects(r.st)
           /\ trace' = r.st.trace
           /\ hist' = Append(hist, Outcome("repl", src, r))
           /\ mode' = IF r.sig = "hang" THEN "hung" ELSE "repl"
    /\ before' = heap
    /\ UNCHANGED <<root, suite, lexer, parser, runner>>

\* The line is "exit" or "quit", or the input has ended.
ReplExit ==
    /\ mode = "repl"
    /\ mode' = "exited"
    /\ UNCHANGED <<heap, root, before, hist, trace, suite, lexer, parser, runner>>

\* runFile on a file that parses without errors.
RunFile(src) ==
    /\ mode = "idle"
    /\ LET st0 == NewEnvironment(EmptyHeap)
           env == Len(st0.envs)
           st == RegisterBuiltins(st0, env)
           r == Eval(Parse(src), env, Running(st))
       IN  /\ heap' = Objects(r.st)
           /\ before' = Objects(st)
           /\ root' = env
           /\ trace' = r.st.trace
           /\ hist' = Append(hist, Outcome("run", src, r))
           /\ mode' = IF r.sig = "hang" THEN "hung" ELSE "done"
    /\ UNCHANGED <<suite, lexer, parser, runner>>

Next ==
    \/ ReplStart
    \/ \E src \in Lines(suite) : ReplTurn(src)
    \/ ReplExit
    \/ \E src \in Files(suite) : RunFile(src)

Spec == Init /\ [][Next]_vars

InitScope == Init /\ suite = "scope"

SpecScope == InitScope /\ [][Next]_vars

InitClosure == Init /\ suite = "closure"

SpecClosure == InitClosure /\ [][Next]_vars

InitLoop == Init /\ suite = "loop"

SpecLoop == InitLoop /\ [][Next]_vars

InitSignal == Init /\ suite = "signal"

SpecSignal == InitSignal /\ [][Next]_vars

InitMatch == Init /\ suite = "match"

SpecMatch == InitMatch /\ [][Next]_vars

InitCall == Init /\ suite = "call"

SpecCall == InitCall /\ [][Next]_vars

InitArray == Init /\ suite = "array"

SpecArray == InitArray /\ [][Next]_vars

InitCompare == Init /\ suite = "compare"

SpecCompare == InitCompare /\ [][Next]_vars

InitEnv == Init /\ suite = "env"

SpecEnv == InitEnv /\ [][Next]_vars

InitDecl == Init /\ suite = "decl"

SpecDecl == InitDecl /\ [][Next]_vars

InitIter == Init /\ suite = "iter"

SpecIter == InitIter /\ [][Next]_vars

InitLogic == Init /\ suite = "logic"

SpecLogic == InitLogic /\ [][Next]_vars

InitRange == Init /\ suite = "range"

SpecRange == InitRange /\ [][Next]_vars

InitEscape == Init /\ suite = "escape"

SpecEscape == InitEscape /\ [][Next]_vars

InitVisit == Init /\ suite = "visit"

SpecVisit == InitVisit /\ [][Next]_vars

\* The characters of the texts given to the lexer: one of each class that
\* Tokenize tells apart.
Alphabet == {" ", "\n", "\"", "/", "=", ".", "1", "i", "n", "#"}

Texts == UNION {[1..n -> Alphabet] : n \in 0..MaxSrc}

\* lexer.New(text, file) on any text.
InitLexer ==
    /\ mode = "idle"
    /\ heap = EmptyHeap
    /\ before = EmptyHeap
    /\ root = 0
    /\ hist = <<>>
    /\ trace = <<>>
    /\ suite = "lexer"
    /\ lexer \in {Lexer_New(source) : source \in Texts}
    /\ parser = NoParser
    /\ runner = NoRunner

\* One iteration of the loop of Tokenize.
TokenizeStep ==
    /\ lexer.phase = "scan"
    /\ ~Lexer_isAtEnd(lexer)
    /\ lexer' = Scan(lexer)
    /\ UNCHANGED <<mode, heap, root, before, hist, trace, suite, parser, runner>>

\* The loop of Tokenize has ended: the EOF token is added and the tokens are
\* returned.
TokenizeEnd ==
    /\ lexer.phase = "scan"
    /\ Lexer_isAtEnd(lexer)
    /\ lexer' = [addToken(lexer, "EOF", <<>>) EXCEPT !.phase = "done"]
    /\ UNCHANGED <<mode, heap, root, before, hist, trace, suite, parser, runner>>

NextLexer == TokenizeStep \/ TokenizeEnd

SpecLexer == InitLexer /\ [][NextLexer]_vars

\* The lexemes of the texts given to the parser.
Lexemes ==
    {<<"x">>, <<"1">>, <<"\"", "s", "\"">>, <<"=">>, <<"(">>, <<")">>, <<"{">>, <<"}">>,
     <<"[">>, <<"]">>, <<",">>, <<":">>, <<"+">>, <<"-">>, <<".">>, <<"=", ">">>, <<"\n">>,
     <<"l", "e", "t">>, <<"f", "n">>, <<"i", "f">>, <<"e", "l", "s", "e">>,
     <<"l", "o", "o", "p">>, <<"i", "n">>, <<"r", "e", "t", "u", "r", "n">>,
     <<"m", "a", "t", "c", "h">>, <<"t", "e", "s", "t">>}

\* The lexemes of words, each followed by a space.
RECURSIVE Spaced(_)
Spaced(words) == IF words = <<>> THEN <<>> ELSE Head(words) \o <<" ">> \o Spaced(Tail(words))

\* The lexemes of the longest texts.
Core ==
    {<<"x">>, <<"1">>, <<"=">>, <<"(">>, <<")">>, <<"{">>, <<"}">>, <<"[">>, <<",">>,
     <<"\n">>, <<"l", "e", "t">>, <<"f", "n">>}

Programs ==
    {Spaced(words) :
        words \in UNION {[1..n -> IF n < MaxLexemes THEN Lexemes ELSE Core] :
                            n \in 0..MaxLexemes}}

\* lexer.New(source, file) on any of the texts, to be parsed when scanned.
InitParser ==
    /\ mode = "idle"
    /\ heap = EmptyHeap
    /\ before = EmptyHeap
    /\ root = 0
    /\ hist = <<>>
    /\ trace = <<>>
    /\ suite = "parser"
    /\ lexer \in {Lexer_New(source) : source \in Programs}
    /\ parser = NoParser
    /\ runner = NoRunner

\* parser.Parse(tokens) up to the loop of parseProgram, on the tokens that
\* Tokenize returned.
ParseStart ==
    /\ lexer.phase = "done"
    /\ parser.phase = "none"
    /\ parser' = Parser_New(lexer.tokens)
    /\ UNCHANGED <<mode, heap, root, before, hist, trace, suite, lexer, runner>>

\* One iteration of the loop of parseProgram, the last one included.
ParseProgramStep ==
    /\ parser.phase = "parse"
    /\ ~Parser_isAtEnd(parser)
    /\ parser' = parseProgram(parser)
    /\ UNCHANGED <<mode, heap, root, before, hist, trace, suite, lexer, runner>>

\* The loop of parseProgram has ended: Parse returns the program and the
\* diagnostics.
ParseProgramEnd ==
    /\ parser.phase = "parse"
    /\ Parser_isAtEnd(parser)
    /\ parser' = [parser EXCEPT !.phase = "done"]
    /\ UNCHANGED <<mode, heap, root, before, hist, trace, suite, lexer, runner>>

NextParser ==
    \/ TokenizeStep
    \/ TokenizeEnd
    \/ ParseStart
    \/ ParseProgramStep
    \/ ParseProgramEnd

SpecParser == InitParser /\ [][NextParser]_vars

\* The parts of the string literals given to the whole pipeline: text, and
\* the two segments ${n} and ${v}.
MaxParts == 3

Segment(name) == <<"$", "{", name, "}">>

Parts == {<<"h">>, <<" ">>, Segment("n"), Segment("v")}

PartLists == UNION {[1..k -> Parts] : k \in 0..MaxParts}

RECURSIVE Flat(_)
Flat(seqs) == IF seqs = <<>> THEN <<>> ELSE Head(seqs) \o Flat(Tail(seqs))

\* The text of TestStringInterpolation: two bindings, then the literal.
Prelude ==
    <<"l", "e", "t", " ", "n", " ", "=", " ", "\"", "w", "\"", "\n",
      "l", "e", "t", " ", "v", " ", "=", " ", "1", "\n">>

Interpolating(parts) == Prelude \o <<"\"">> \o Flat(parts) \o <<"\"">>

\* runFile up to lexer.New(source, path), on the text of any of the literals.
InitInterp ==
    /\ mode = "idle"
    /\ heap = EmptyHeap
    /\ before = EmptyHeap
    /\ root = 0
    /\ hist = <<>>
    /\ trace = <<>>
    /\ suite = "interp"
    /\ lexer \in {Lexer_New(Interpolating(parts)) : parts \in PartLists}
    /\ parser = NoParser
    /\ runner = NoRunner

\* runFile from the return of parser.Parse: the program is evaluated when
\* there are no diagnostics.
RunParsed ==
    /\ mode = "idle"
    /\ parser.phase = "done"
    /\ parser.errors = <<>>
    /\ LET st0 == NewEnvironment(EmptyHeap)
           env == Len(st0.envs)
           st == RegisterBuiltins(st0, env)
           r == Eval(parser.program, env, Running(st))
       IN  /\ heap' = Objects(r.st)
           /\ before' = Objects(st)
           /\ root' = env
           /\ trace' = r.st.trace
           /\ hist' = Append(hist, Outcome("run", Src("text", Text(lexer.source), 0, 0), r))
           /\ mode' = IF r.sig = "hang" THEN "hung" ELSE "done"
    /\ UNCHANGED <<suite, lexer, parser, runner>>

NextInterp ==
    \/ TokenizeStep
    \/ TokenizeEnd
    \/ ParseStart
    \/ ParseProgramStep
    \/ ParseProgramEnd
    \/ RunParsed

SpecInterp == InitInterp /\ [][NextInterp]_vars

TestOutcome(src, results) ==
    [cmd |-> "test", src |-> src, results |-> results,
     exit |-> IF \E i \in DOMAIN results : ~results[i].Passed THEN 1 ELSE 0]

\* testFile on a file that parses without errors, up to the first loop of
\* RunTests.
TestFileStart(src) ==
    /\ mode = "idle"
    /\ LET st0 == NewEnvironment(EmptyHeap)
           env == Len(st0.envs)
           st == RegisterBuiltins(st0, env)
       IN  /\ heap' = Objects(st)
           /\ before' = Objects(st)
           /\ root' = env
           /\ runner' = RunTests_New(src, Parse(src), env)
    /\ mode' = "test"
    /\ UNCHANGED <<hist, trace, suite, lexer, parser>>

\* One iteration of the first loop of RunTests.
RunTestsStatement ==
    /\ runner.phase = "statements"
    /\ runner.i <= Len(runner.program.stmts)
    /\ LET step == evalStatements(runner, Running(heap))
       IN  /\ heap' = Objects(step.r.st)
           /\ trace' = step.r.st.trace
           /\ runner' = IF step.r.sig = "hang" THEN [step.t EXCEPT !.phase = "hung"]
                        ELSE step.t
           /\ mode' = IF step.r.sig = "hang" THEN "hung" ELSE mode
    /\ UNCHANGED <<root, before, hist, suite, lexer, parser>>

\* The first loop has ended and the second one begins.
RunTestsBlocks ==
    /\ runner.phase = "statements"
    /\ runner.i > Len(runner.program.stmts)
    /\ runner' = [runner EXCEPT !.phase = "tests", !.i = 1]
    /\ UNCHANGED <<mode, heap, root, before, hist, trace, suite, lexer, parser>>

\* One iteration of the second loop of RunTests.
RunTestsTest ==
    /\ runner.phase = "tests"
    /\ runner.i <= Len(runner.program.stmts)
    /\ LET step == runTestBlocks(runner, Running(heap))
       IN  /\ heap' = Objects(step.r.st)
           /\ trace' = step.r.st.trace
           /\ runner' = IF step.r.sig = "hang" THEN [step.t EXCEPT !.phase = "hung"]
                        ELSE step.t
           /\ mode' = IF step.r.sig = "hang" THEN "hung" ELSE mode
    /\ UNCHANGED <<root, before, hist, suite, lexer, parser>>

\* RunTests returns its results and testFile reports them.
TestFileEnd ==
    /\ runner.phase = "tests"
    /\ runner.i > Len(runner.program.stmts)
    /\ hist' = Append(hist, TestOutcome(runner.src, runner.results))
    /\ runner' = [runner EXCEPT !.phase = "done"]
    /\ mode' = "done"
    /\ UNCHANGED <<heap, root, before, trace, suite, lexer, parser>>

InitTest == Init /\ suite = "test"

\* `glace test file` and `glace run file` on the same files.
NextTest ==
    \/ \E src \in Files(suite) : TestFileStart(src)
    \/ RunTestsStatement
    \/ RunTestsBlocks
    \/ RunTestsTest
    \/ TestFileEnd
    \/ \E src \in Files(suite) : RunFile(src)

SpecTest == InitTest /\ [][NextTest]_vars

InitBuiltin == Init /\ suite = "builtin"

\* The three entry points that evaluate a program: the REPL, `glace run`
\* and `glace test`.
NextBuiltin ==
    \/ ReplStart
    \/ \E src \in Lines(suite) : ReplTurn(src)
    \/ ReplExit
    \/ \E src \in Files(suite) : RunFile(src)
    \/ \E src \in Files(suite) : TestFileStart(src)
    \/ RunTestsStatement
    \/ RunTestsBlocks
    \/ RunTestsTest
    \/ TestFileEnd

SpecBuiltin == InitBuiltin /\ [][NextBuiltin]_vars


\* ------------------------------------------------------------------------
\* Properties
\* ------------------------------------------------------------------------
Last == hist[Len(hist)]

\* The last top-level evaluation was of a source of one of the shapes fams.
Ran(fams) == hist # <<>> /\ Last.src.f \in fams

NoBinding == [found |-> FALSE, value |-> NilValue, mutable |-> FALSE]

\* The binding a reference to name from scope e resolves to in h.
RECURSIVE Resolve(_, _, _)
Resolve(h, e, name) ==
    IF name \in DOMAIN h.envs[e].store
    THEN [found |-> TRUE, value |-> h.envs[e].store[name].value,
          mutable |-> h.envs[e].store[name].mutable]
    ELSE IF h.envs[e].parent # 0 THEN Resolve(h, h.envs[e].parent, name)
    ELSE NoBinding

ImmutableMsg == "cannot assign to immutable variable '%s'"
UndefinedMsg == "undefined variable '%s'"
AlreadyDefinedMsg == "variable '%s' is already defined in this scope"

\* Sources that assign the literal a to the name id: directly, inside an if
\* block, inside a called closure, inside a loop body.
AssignFams == {"assign", "ifassign", "callassign", "loopassign"}

\* C1: an assignment that resolves to an immutable (let) binding fails with
\* the "immutable" runtime error and leaves the binding as it was, wherever
\* the assignment statement stands; no evaluation changes any immutable
\* binding of any scope; the same assignment to a mut binding succeeds and
\* the name then reads as the assigned value.
C1_LetIsImmutable ==
    /\ Ran(AssignFams) =>
          LET b == Resolve(before, root, Last.src.id) IN
          /\ (b.found /\ ~b.mutable) =>
                /\ Last.sig = "runtime"
                /\ Last.msg = ImmutableMsg
                /\ Resolve(heap, root, Last.src.id) = b
          /\ (b.found /\ b.mutable) =>
                /\ Last.sig = "ok"
                /\ Resolve(heap, root, Last.src.id) =
                      [found |-> TRUE, value |-> NewInt(Last.src.a), mutable |-> TRUE]
    /\ \A e \in 1..Len(before.envs) : \A n \in DOMAIN before.envs[e].store :
          ~before.envs[e].store[n].mutable =>
              heap.envs[e].store[n] = before.envs[e].store[n]
    /\ Ran({"read"}) =>
          LET b == Resolve(before, root, Last.src.id) IN
          b.found => Last.sig = "ok" /\ Last.val = b.value
    /\ Ran({"letassign"}) => Last.sig = "runtime" /\ Last.msg = ImmutableMsg /\ Last.exit = 1
    /\ Ran({"mutassign"}) => Last.sig = "ok" /\ Last.val = NewInt(Last.src.b)

\* An assignment inside a called closure hit a let binding of the root scope.
C1_Witness ==
    /\ Ran({"callassign"})
    /\ Resolve(before, root, Last.src.id).found
    /\ ~Resolve(before, root, Last.src.id).mutable
    /\ Last.msg = ImmutableMsg

\* Sources whose only statement is an if with a block that declares id.
BlockDeclFams == {"iflet", "ifmut", "elselet"}

\* C2: a name declared by let or mut inside a block is not bound in the
\* enclosing scope once the block has finished: the block succeeds whatever
\* the enclosing scope binds, and the enclosing scope's bindings are what
\* they were before.
C2_BlockScopeEnforced ==
    /\ Ran(BlockDeclFams) =>
          /\ Last.sig = "ok"
          /\ heap.envs[root].store = before.envs[root].store
    /\ Ran({"shadow"}) => Last.sig = "ok" /\ Last.val = NewInt(Last.src.a)

\* The number of successful evaluations of source src among the first i.
RECURSIVE OkCount(_, _)
OkCount(src, i) ==
    IF i = 0 THEN 0
    ELSE OkCount(src, i - 1) + (IF hist[i].src = src /\ hist[i].sig = "ok" THEN 1 ELSE 0)

\* The closure object a value refers to, and the i-th closure of the array
\* bound to p in the root scope.
Closure(h, v) == h.fns[v.n]
PairFn(h, id, i) == Closure(h, h.arrs[Resolve(h, root, id).value.n][i])

\* C3: a closure keeps the scope S it was created in.  Every call runs in a
\* fresh child of S; what one call, another closure over S, or code of S
\* itself assigns to a mutable binding of S is what the next call reads; the
\* n-th call of a counter closure returns n.
C3_ClosureRetainsScope ==
    /\ \A i \in 1..Len(hist) :
          (hist[i].src.f = "call" /\ hist[i].src.id \in {"c", "d"} /\ hist[i].sig = "ok") =>
              hist[i].val = NewInt(OkCount(hist[i].src, i))
    /\ Ran({"counter"}) => Last.sig = "ok" /\ Last.val = NewInt(Last.src.a)
    /\ (Ran({"call"}) /\ Last.sig = "ok") =>
          /\ Len(heap.envs) = Len(before.envs) + 1
          /\ heap.envs[Len(heap.envs)].parent =
                Closure(before, Resolve(before, root, Last.src.id).value).env
    /\ (Ran({"pinc", "pget", "pset"}) /\ Resolve(before, root, Last.src.id).found) =>
          LET S == PairFn(before, Last.src.id, 1).env
              x == Resolve(before, S, "x").value.n
              x2 == Resolve(heap, S, "x").value.n
          IN  /\ PairFn(before, Last.src.id, 2).env = S
              /\ PairFn(before, Last.src.id, 3).env = S
              /\ Last.sig = "ok"
              /\ heap.envs[Len(heap.envs)].parent = S
              /\ Last.src.f = "pinc" => Last.val = NewInt(x + 1) /\ x2 = x + 1
              /\ Last.src.f = "pget" => Last.val = NewInt(x) /\ x2 = x
              /\ Last.src.f = "pset" => x2 = Last.src.a
    /\ (Ran({"call"}) /\ Last.cmd = "repl" /\ Last.sig = "ok") =>
          LET x == Resolve(before, root, "x").value.n
              x2 == Resolve(heap, root, "x").value.n
          IN  /\ Last.src.id = "inc" => Last.val = NewInt(x + 1) /\ x2 = x + 1
              /\ Last.src.id = "get" => Last.val = NewInt(x) /\ x2 = x

\* The reading closure of a pair returns what the incrementing closure of
\* the same pair left in their common scope.
C3_Witness ==
    /\ Len(hist) = 3
    /\ hist[2].src.f = "pinc" /\ hist[2].sig = "ok"
    /\ hist[3].src.f = "pget" /\ hist[3].val = NewInt(1)

\* ------------------------------------------------------------------------
\* Loops
\* ------------------------------------------------------------------------
\* How many steps of kind e the loop at pos took in the last evaluation.
Count(e, pos) == Cardinality({j \in DOMAIN trace : trace[j].e = e /\ trace[j].pos = pos})
Passed(pos) ==
    Cardinality({j \in DOMAIN trace : /\ trace[j].pos = pos
                                      /\ \/ trace[j].e = "iter"
                                         \/ trace[j].e = "cond" /\ trace[j].v = 1})
\* The value of the root binding name after the last evaluation.
Root(name) == Resolve(heap, root, name).value

\* After a break, the loop at that position takes no step until the loop
\* statement is executed anew.
BreakEnds ==
    \A j \in DOMAIN trace : trace[j].e = "brk" =>
        \A l \in (j + 1)..Len(trace) : trace[l].pos = trace[j].pos =>
            \E q \in (j + 1)..l : trace[q].pos = trace[j].pos /\ trace[q].e = "loop"

\* C4: in an infinite, a conditional, an array and a range loop the body is
\* entered once per iteration that passed the condition or the iterator
\* step; a break in the k-th entry leaves exactly k entries, with nothing of
\* the loop evaluated after it, and the loop statement yields none.
C4_BreakEndsLoop ==
    /\ BreakEnds
    /\ (Ran(FlatFams) /\ Last.sig # "runtime") =>
          LET k == Last.src.a
              e == Last.src.b
              hit == k >= 1 /\ (Last.src.f = "inf" \/ k <= e)
              entries == IF hit THEN k ELSE e
          IN  /\ Last.sig = "ok"
              /\ Last.val = NONE
              /\ Count("body", 1) = entries
              /\ Last.src.f # "inf" => Passed(1) = entries
              /\ Last.src.f = "cond" => Count("cond", 1) = (IF hit THEN k ELSE e + 1)
              /\ Count("brk", 1) = (IF hit THEN 1 ELSE 0)
              /\ hit => trace[Len(trace)].e = "brk"
              /\ Root("n") = NewInt(entries)
              /\ Root("m") = NewInt(IF hit THEN k - 1 ELSE e)

\* A conditional loop that could run three times is left in its second entry.
C4_Witness ==
    /\ Ran({"cond"}) /\ Last.src.a = 2 /\ Last.src.b = 3
    /\ Count("body", 1) = 2 /\ Count("brk", 1) = 1

\* C5: a break or continue in an inner loop ends or skips only that loop's
\* iteration: the outer loop runs the statements after the inner loop and
\* all of its own iterations.
C5_InnermostLoopConsumes ==
    Ran({"nest", "nestw"}) =>
        LET k == Last.src.a
            e == Last.src.b
            n == Last.src.c
            lo == IF Last.src.f = "nest" THEN 0 ELSE 1
            hit == k >= lo /\ k <= e - 1 + lo
            brk == Last.src.id = "break"
            inner == IF hit /\ brk THEN k - lo + 1 ELSE e
            rest == IF hit THEN (IF brk THEN k - lo ELSE e - 1) ELSE e
        IN  /\ Last.sig = "ok"
            /\ Last.val = NewInt(n * inner)
            /\ Root("after") = NewInt(n)
            /\ Root("rest") = NewInt(n * rest)
            /\ Count("loop", 1) = 1 /\ Count("brk", 1) = 0 /\ Count("cont", 1) = 0
            /\ Count("body", 1) = n
            /\ Count("loop", 2) = n
            /\ Count("body", 2) = n * inner
            /\ Count(IF brk THEN "brk" ELSE "cont", 2) = (IF hit THEN n ELSE 0)

\* TestNestedBreak: five outer iterations of three inner entries each.
C5_Witness ==
    /\ Ran({"nest"}) /\ Last.src = Src3("nest", "break", 2, NestedEnd, NestedEnd)
    /\ Last.val = NewInt(15) /\ Count("brk", 2) = 5

RECURSIVE SumOdd(_, _)
SumOdd(lo, hi) ==
    IF lo > hi THEN 0 ELSE (IF lo % 2 = 1 THEN lo ELSE 0) + SumOdd(lo + 1, hi)

\* The elements the for-in loop of step j has taken since it started.
IterSince(j) ==
    Cardinality({l \in 1..j :
        /\ trace[l].e = "iter" /\ trace[l].pos = trace[j].pos
        /\ \A q \in l..j : ~(trace[q].e = "loop" /\ trace[q].pos = trace[j].pos)})

\* C6: a continue skips the rest of its iteration and the loop goes on with
\* the next element or with its condition; with a break at an odd value the
\* skipping loop adds the odd values below it (1, 3 and 5 below 7).
C6_ContinueSkipsIteration ==
    /\ Ran({"skip", "nest", "nestw"}) =>
          \A j \in DOMAIN trace : trace[j].e = "cont" =>
              \/ /\ j < Len(trace)
                 /\ trace[j + 1].pos = trace[j].pos
                 /\ trace[j + 1].e \in {"iter", "cond"}
              \/ /\ Last.src.id # "cond" /\ Last.src.f # "nestw"
                 /\ IterSince(j) = Last.src.b
                 /\ \A l \in (j + 1)..Len(trace) : trace[l].pos = trace[j].pos =>
                        \E q \in (j + 1)..l :
                            trace[q].pos = trace[j].pos /\ trace[q].e = "loop"
    /\ Ran({"skip"}) =>
          LET b == Last.src.a
              lo == IF Last.src.id = "range" THEN 0 ELSE 1
              hi == Last.src.b - 1 + lo
              hit == b % 2 = 1 /\ lo <= b /\ b <= hi
              last == IF hit THEN b ELSE hi
          IN  /\ Last.sig = "ok"
              /\ Last.val = NewInt(SumOdd(lo, last - (IF hit THEN 1 ELSE 0)))
              /\ Count("body", 1) = last - lo + 1
              /\ Count("cont", 1) = Cardinality({i \in lo..last : i % 2 = 0})
              /\ Count("brk", 1) = (IF hit THEN 1 ELSE 0)

\* loop i in 0..10 with the break at 7 yields 1 + 3 + 5.
C6_Witness ==
    /\ Ran({"skip"}) /\ Last.src = Src("skip", "range", 7, SkipEnd)
    /\ Last.val = NewInt(9) /\ Count("cont", 1) = 4

\* The values the iterator of the loop at pos was bound to, in order.
RECURSIVE IterValues(_, _)
IterValues(pos, j) ==
    IF j = 0 THEN <<>>
    ELSE IF trace[j].e = "iter" /\ trace[j].pos = pos
    THEN Append(IterValues(pos, j - 1), trace[j].v)
    ELSE IterValues(pos, j - 1)

\* C7: a loop over start..end:step binds its iterator to start, start+step,
\* ... while the value is inside the half-open range, for a positive and for
\* a negative step, so that the body is entered Len() times.
C7_RangeLoopFollowsLen ==
    Ran({"steps"}) =>
        LET r == RangeValue(Last.src.a, Last.src.b, Last.src.c)
        IN  /\ Last.sig = "ok"
            /\ Last.val = NewInt(RangeLen(r))
            /\ IterValues(1, Len(trace)) = [i \in 1..RangeLen(r) |-> RangeAt(r, i - 1)]

\* ------------------------------------------------------------------------
\* Top-level failures
\* ------------------------------------------------------------------------
\* C8: whatever the program, a top-level evaluation (a run or a REPL turn)
\* that fails fails with a RuntimeError: a return, break or continue outside
\* any function or loop is reported as one and no signal reaches the caller.
C8_TopLevelFailureIsRuntimeError ==
    \A i \in DOMAIN hist : hist[i].sig \in {"ok", "runtime", "hang"}

\* ------------------------------------------------------------------------
\* Match
\* ------------------------------------------------------------------------
\* What the arms of TestMatchRange say of subject s.
Band(s) ==
    IF 0 <= s /\ s < 3 THEN "low"
    ELSE IF 3 <= s /\ s < 7 THEN "mid"
    ELSE IF 7 <= s /\ s < 10 THEN "high"
    ELSE "out"

\* The steps of the one match statement of the last evaluation: the subject,
\* then the arms from the first on, a guard only after its pattern matched,
\* the next arm only after a pattern or guard failed, and a body last.
ArmsInOrder ==
    /\ trace # <<>> /\ trace[1].e = "match"
    /\ \A j \in 2..Len(trace) :
          LET p == trace[j - 1]
              c == trace[j]
          IN  CASE c.e = "pat" ->
                      \/ p.e = "match" /\ c.i = 1
                      \/ p.e \in {"pat", "guard"} /\ p.v = 0 /\ c.i = p.i + 1
                [] c.e = "guard" -> p.e = "pat" /\ p.v = 1 /\ c.i = p.i
                [] c.e = "arm" -> p.e \in {"pat", "guard"} /\ p.v = 1 /\ c.i = p.i
                                  /\ j = Len(trace)
                [] OTHER -> FALSE

\* C9: a match evaluates its subject once, tries the arms in source order,
\* evaluates the body of the first arm whose pattern matches and whose guard
\* is truthy and nothing of a later arm, and yields none when no arm matches;
\* s matches the range pattern a..b iff a <= s < b.
C9_FirstMatchingArm ==
    /\ Ran({"mrange", "mlit"}) =>
          /\ Last.sig = "ok"
          /\ Last.val = NewString(Band(Last.src.a))
          /\ ArmsInOrder
    /\ Ran({"marms"}) =>
          LET s == Last.src.a
              g1 == Last.src.b % 2 = 1
              g3 == Last.src.b \div 2 = 1
              arm == CASE s = 1 -> IF g1 THEN 1 ELSE 2
                       [] s \in {0, 2} /\ g3 -> 3
                       [] s = 2 /\ ~g3 -> 4
                       [] s = 4 -> 5
                       [] OTHER -> 0
              last == trace[Len(trace)]
          IN  /\ Last.sig = "ok"
              /\ Root("calls") = NewInt(1)
              /\ ArmsInOrder
              /\ Count("guard", 1) =
                    Cardinality({i \in {1, 3} : \E j \in DOMAIN trace :
                                    trace[j].e = "pat" /\ trace[j].i = i /\ trace[j].v = 1})
              /\ arm = 0 => Last.val = NONE /\ last.e # "arm" /\ last.i = 5
              /\ arm # 0 => /\ last.e = "arm" /\ last.i = arm
                            /\ Last.val = NewInt(<<10, 11, 20, 21, 0>>[arm])

\* TestMatchRange: 5 is "mid", decided at the second arm.
C9_Witness ==
    /\ Ran({"mrange"}) /\ Last.src.a = 5 /\ Last.val = NewString("mid")
    /\ trace[Len(trace)] = Event("arm", 1, 2, 0)

\* C10: an arm whose pattern is the identifier n matches every subject v and
\* n is v in its guard and body, whatever the scope already binds and however
\* often the match has run in it.
C10_IdentifierPatternBinds ==
    Ran(BindFams) =>
        /\ Last.sig = "ok"
        /\ trace[Len(trace)] = Event("arm", 1, 1, 0)
        /\ Last.val = NewInt(IF Last.src.f = "bindg" THEN 1 ELSE Last.src.a)

\* ------------------------------------------------------------------------
\* Calls
\* ------------------------------------------------------------------------
\* The last source had its declarations: it is a file, or the REPL has
\* evaluated the declarations before.
Ready == hist # <<>> /\ (Last.src.c = 1 \/ Resolve(before, root, "seq").found)

\* What seq holds after t(1), ..., t(n) in this order.
RECURSIVE Digits(_)
Digits(n) == IF n = 0 THEN 0 ELSE Digits(n - 1) * 10 + n

\* C11: a call whose body runs return e1, ..., eN yields none for N = 0, the
\* value of e1 for N = 1 and the array of the values in order for N > 1;
\* nothing of the body runs after the return, a return inside loops and ifs
\* ends the call, and a body without return yields its last statement's value.
C11_ReturnEndsCall ==
    /\ (Ran({"retn"}) /\ Ready) =>
          LET n == Last.src.a
          IN  /\ Last.sig = "ok"
              /\ Root("after") = NewInt(0)
              /\ Root("seq") = NewInt(Digits(n))
              /\ n = 0 => Last.val = NONE
              /\ n = 1 => Last.val = NewInt(1)
              /\ n > 1 => /\ Last.val.t = "array"
                          /\ heap.arrs[Last.val.n] = [i \in 1..n |-> NewInt(i)]
    /\ (Ran({"retloop"}) /\ Ready) =>
          LET k == Last.src.a
              hit == k \in 1..3
          IN  /\ Last.sig = "ok"
              /\ Last.val = NewInt(IF hit THEN k ELSE 99)
              /\ Root("after") = NewInt(IF hit THEN 0 ELSE 103)
              /\ Count("body", 1) = (IF hit THEN 1 ELSE 3)
              /\ Count("body", 2) = (IF hit THEN k ELSE 9)
    /\ (Ran({"last"}) /\ Ready) => Last.sig = "ok" /\ Last.val = NewInt(Last.src.a + 1)
    /\ (Ran({"lastlet"}) /\ Ready) => Last.sig = "ok" /\ Last.val = NONE

\* return t(1), t(2), t(3) yields the array of the three values.
C11_Witness ==
    /\ Ran({"retn"}) /\ Last.src.a = 3
    /\ Last.val.t = "array" /\ Len(heap.arrs[Last.val.n]) = 3

ArityMsg == "%s() takes %d arguments, got %d"

\* C12: a call with a wrong number of arguments fails with "takes N
\* arguments, got M" after its arguments were evaluated, without a call scope
\* and without running the body; with the right number, parameter i is an
\* immutable binding of argument i in a fresh child of the captured scope.
C12_ArityChecked ==
    /\ (Ran({"arity"}) /\ Ready) =>
          LET m == Last.src.a
              scope == heap.envs[Len(heap.envs)]
          IN  /\ Root("seq") = NewInt(Digits(m))
              /\ m # 2 => /\ Last.sig = "runtime" /\ Last.msg = ArityMsg
                          /\ Root("after") = NewInt(0)
                          /\ Len(heap.envs) = Len(before.envs) + m
              /\ m = 2 => /\ Last.sig = "ok" /\ Last.val = NewInt(12)
                          /\ Root("after") = NewInt(1)
                          /\ Len(heap.envs) = Len(before.envs) + 3
                          /\ scope.parent = Closure(heap, Root("g2")).env
                          /\ scope.store =
                                [n \in {"a", "b"} |->
                                    binding(NewInt(IF n = "a" THEN 1 ELSE 2), FALSE)]
    /\ (Ran({"passign"}) /\ Ready) =>
          /\ Last.sig = "runtime" /\ Last.msg = ImmutableMsg
          /\ heap.envs[Len(heap.envs)].store = [n \in {"p"} |-> binding(NewInt(Last.src.a), FALSE)]

\* TestWrongArgumentCount: one argument for two parameters.
C12_Witness ==
    /\ Ran({"arity"}) /\ Last.src.a = 1
    /\ Last.msg = ArityMsg /\ Root("seq") = NewInt(1)

\* C13: x |> f(a, b) has the result of f(x, a, b), value or failure: the
\* piped value is the first argument, x is evaluated first, then the callee,
\* then a and b, and x |> f() |> g() is g(f(x)).
C13_PipelineIsFirstArgument ==
    (Ran({"pipe"}) /\ Ready) =>
        LET direct == Eval(Parse([Last.src EXCEPT !.f = "direct"]), root, Running(before))
            form == Last.src.id
        IN  /\ Last.sig = direct.sig /\ Last.msg = direct.msg /\ Last.val = direct.val
            /\ form # "pick" => heap = Objects(direct.st)
            /\ form = "id3" => /\ Last.sig = "ok" /\ Last.val = NewInt(123)
                               /\ Root("seq") = NewInt(123)
            /\ form = "pick" => /\ Last.sig = "ok" /\ Last.val = NewInt(123)
                                /\ Root("seq") = NewInt(1423)
            /\ form = "chain" => Last.sig = "ok" /\ Last.val = NewInt((Last.src.a + 1) * 2)
            /\ form = "few" => Last.sig = "runtime" /\ Last.msg = ArityMsg
            /\ form = "badarg" => /\ Last.sig = "runtime" /\ Last.msg = UndefinedMsg
                                  /\ Root("seq") = NewInt(1)

\* t(1) |> pick(4)(t(2), t(3)): the piped value before the callee.
C13_Witness ==
    /\ Ran({"pipe"}) /\ Last.src.id = "pick"
    /\ Last.val = NewInt(123) /\ Root("seq") = NewInt(1423)

\* ------------------------------------------------------------------------
\* Arrays
\* ------------------------------------------------------------------------
OutOfBoundsMsg == "index %d out of bounds (len %d)"

\* The elements of the array bound to name in the root scope of h.
Elements(h, name) == h.arrs[Resolve(h, root, name).value.n]

\* C14: reading or assigning element i of an array succeeds iff
\* 0 <= i < len; otherwise it is an out-of-bounds runtime error and the array
\* is unchanged.  An assignment changes element i only, and every binding of
\* the array shows it.
C14_IndexInBounds ==
    /\ Ran({"aread", "awrite"}) =>
          LET i == Last.src.a
              n == Last.src.b
              inside == 0 <= i /\ i < n
              write == Last.src.f = "awrite"
          IN  /\ Root("ys") = Root("xs")
              /\ inside => /\ Last.sig = "ok"
                           /\ Last.val = NewInt(IF write THEN 99 ELSE i + 1)
                           /\ Elements(heap, "xs") =
                                 [j \in 1..n |-> NewInt(IF write /\ j = i + 1 THEN 99 ELSE j)]
              /\ ~inside => /\ Last.sig = "runtime" /\ Last.msg = OutOfBoundsMsg
                            /\ Elements(heap, "xs") = [j \in 1..n |-> NewInt(j)]
    /\ (Ran({"aset", "aget"}) /\ Resolve(before, root, "xs").found) =>
          LET i == Last.src.a
              old == Elements(before, "xs")
              inside == 0 <= i /\ i < Len(old)
              write == Last.src.f = "aset"
          IN  /\ inside => /\ Last.sig = "ok"
                           /\ Last.val = (IF write THEN NONE ELSE old[i + 1])
              /\ ~inside => Last.sig = "runtime" /\ Last.msg = OutOfBoundsMsg
              /\ (inside /\ write) =>
                    /\ heap = [before EXCEPT
                                 !.arrs[Root("xs").n][i + 1] = NewInt(99),
                                 !.mem[before.data[Root("xs").n]].elems[i + 1] = NewInt(99)]
                    /\ Elements(heap, "ys")[i + 1] = NewInt(99)
              /\ ~(inside /\ write) => heap = before

\* An element written through xs is read through ys on a later line.
C14_Witness ==
    /\ Len(hist) = 3
    /\ hist[2].src = Src("aset", "xs", 0, 0) /\ hist[2].sig = "ok"
    /\ hist[3].src = Src("aget", "ys", 0, 0) /\ hist[3].val = NewInt(99)

\* ------------------------------------------------------------------------
\* Comparison and equality
\* ------------------------------------------------------------------------
\* The evaluation of src from the state the last evaluation started in.
Again(src) == Eval(Parse(src), root, Running(before))

\* C15: s < t, s > t, s <= t and s >= t on two strings are booleans, decided
\* by the lexicographic order of s and t, and never a runtime error.
C15_StringsAreOrdered ==
    Ran({"strcmp"}) =>
        LET a == Last.src.a
            b == Last.src.b
            op == Last.src.id
        IN  /\ Last.sig = "ok"
            /\ Last.val = NewBool(CASE op = "<" -> a < b
                                    [] op = ">" -> a > b
                                    [] op = "<=" -> a <= b
                                    [] op = ">=" -> a >= b)

\* C16: a == b and a != b are booleans for values of any two kinds, never a
\* runtime error; a != b is the negation of a == b, and a == b is b == a.
C16_EqualityIsTotal ==
    (Ran({"eq"}) /\ (Last.src.c = 1 \/ Resolve(before, root, "xs").found)) =>
        LET other == Again([Last.src EXCEPT !.id = IF @ = "==" THEN "!=" ELSE "=="])
            swapped == Again([Last.src EXCEPT !.a = Last.src.b, !.b = Last.src.a])
        IN  /\ Last.sig = "ok" /\ Last.val.t = "bool"
            /\ other.sig = "ok" /\ other.val = NewBool(Last.val.n = 0)
            /\ swapped.sig = "ok" /\ swapped.val = Last.val

\* The binding of x in the root scope when the statements after the file's
\* first declaration, or the REPL line, start.
Given ==
    IF Last.cmd = "run"
    THEN CASE Last.src.c = 0 -> NoBinding
           [] Last.src.c = 1 -> [found |-> TRUE, value |-> NewInt(1), mutable |-> FALSE]
           [] Last.src.c = 2 -> [found |-> TRUE, value |-> NewInt(2), mutable |-> TRUE]
    ELSE Resolve(before, root, "x")

\* The k-th scope the last evaluation created.
Local(k) == heap.envs[Len(before.envs) + k]

Created == Len(heap.envs) - Len(before.envs)

\* The root scope's bindings other than x and the function the source declares.
Others(h) ==
    [n \in DOMAIN h.envs[root].store \ {"x", Last.src.f} |-> h.envs[root].store[n]]

\* Apart from x in the root scope and the scopes the last evaluation created,
\* every scope is as it was.
AncestorsKept ==
    /\ Others(heap) = Others(before)
    /\ heap.envs[root].parent = 0
    /\ \A e \in DOMAIN before.envs : e # root => heap.envs[e] = before.envs[e]

Only(val, mutable) == "x" :> binding(NewInt(val), mutable)

\* C17: Define(name, v, m) on a scope succeeds exactly when that scope itself
\* does not bind name, whatever its ancestors bind; on success only that
\* scope gains the binding and the ancestors' bindings are as before (and are
\* what a lookup from the ancestor returns); on failure the scope's binding
\* keeps its value and its mutability.
C17_DefineIsLocal ==
    /\ Ran({"rootlet", "rootmut"}) =>
         /\ AncestorsKept /\ Created = 0
         /\ IF Given.found
            THEN /\ Last.sig = "runtime" /\ Last.msg = AlreadyDefinedMsg
                 /\ Resolve(heap, root, "x") = Given
            ELSE /\ Last.sig = "ok"
                 /\ Resolve(heap, root, "x") =
                      [found |-> TRUE, value |-> NewInt(Last.src.a),
                       mutable |-> (Last.src.f = "rootmut")]
    /\ Ran({"fnlet"}) =>
         /\ Last.sig = "ok" /\ Last.val = NewInt(Last.src.a)
         /\ Created = 1
         /\ Local(1) = [store |-> Only(Last.src.a, FALSE), parent |-> root]
         /\ Resolve(heap, root, "x") = Given /\ AncestorsKept
    /\ Ran({"fndup"}) =>
         /\ Last.sig = "runtime" /\ Last.msg = AlreadyDefinedMsg
         /\ Created = 1
         /\ Local(1) = [store |-> Only(Last.src.a, TRUE), parent |-> root]
         /\ Resolve(heap, root, "x") = Given /\ AncestorsKept
    /\ Ran({"looplet"}) =>
         /\ Last.sig = "ok" /\ Last.val = NewInt(Last.src.a)
         /\ Created = 2
         /\ Local(1) = [store |-> Only(Last.src.a, FALSE), parent |-> root]
         /\ Local(2) = [store |-> Only(Last.src.b, FALSE) @@ ("i" :> binding(NewInt(0), FALSE)),
                        parent |-> Len(before.envs) + 1]
         /\ Resolve(heap, root, "x") = Given /\ AncestorsKept
    /\ Ran({"rootread"}) =>
         /\ heap = before \/ Last.cmd = "run"
         /\ IF Given.found THEN Last.sig = "ok" /\ Last.val = Given.value
            ELSE Last.sig = "runtime" /\ Last.msg = UndefinedMsg

\* A function's let x succeeded under a root scope that binds x, and the root
\* binding is still there.
C17_Witness ==
    /\ Ran({"looplet"}) /\ Given.found /\ Given.mutable
    /\ Last.sig = "ok"
    /\ Created = 2
    /\ Resolve(heap, root, "x") = Given

\* What an assignment of val to x does to the root scope's binding Given.
RootAssigned(val) ==
    IF ~Given.found
    THEN /\ Last.sig = "runtime" /\ Last.msg = UndefinedMsg
         /\ Resolve(heap, root, "x") = NoBinding
    ELSE IF ~Given.mutable
    THEN /\ Last.sig = "runtime" /\ Last.msg = ImmutableMsg
         /\ Resolve(heap, root, "x") = Given
    ELSE /\ Last.sig = "ok"
         /\ Resolve(heap, root, "x") =
              [found |-> TRUE, value |-> NewInt(val), mutable |-> TRUE]

\* C18: an assignment to name from a scope acts on the innermost binding of
\* name on the chain from that scope to the root: a mutable one takes the new
\* value, stays mutable, and nothing else changes; an immutable one makes the
\* assignment fail even when an outer scope binds name mutably; when no scope
\* binds name the assignment fails with "undefined variable" and no binding
\* is created.
C18_AssignInnermost ==
    /\ Ran({"rootassign"}) =>
         RootAssigned(Last.src.a) /\ Created = 0 /\ AncestorsKept
    /\ Ran({"fnassign"}) =>
         /\ RootAssigned(Last.src.a) /\ AncestorsKept
         /\ Created = 1
         /\ Local(1) = [store |-> EmptyStore, parent |-> root]
    /\ Ran({"fnletassign"}) =>
         /\ Last.sig = "runtime" /\ Last.msg = ImmutableMsg
         /\ Created = 1
         /\ Local(1) = [store |-> Only(Last.src.a, FALSE), parent |-> root]
         /\ Resolve(heap, root, "x") = Given /\ AncestorsKept
    /\ Ran({"fnmutassign"}) =>
         /\ Last.sig = "ok" /\ Last.val = NewInt(Last.src.b)
         /\ Created = 1
         /\ Local(1) = [store |-> Only(Last.src.b, TRUE), parent |-> root]
         /\ Resolve(heap, root, "x") = Given /\ AncestorsKept
    /\ Ran({"loopset"}) =>
         /\ Last.sig = "ok" /\ Last.val = NewInt(Last.src.b)
         /\ Created = 2
         /\ Local(1) = [store |-> Only(Last.src.b, TRUE), parent |-> root]
         /\ Local(2) = [store |-> "i" :> binding(NewInt(0), FALSE),
                        parent |-> Len(before.envs) + 1]
         /\ Resolve(heap, root, "x") = Given /\ AncestorsKept

\* An assignment in a function met the function's own immutable x and failed
\* although the root scope binds x mutably.
C18_Witness ==
    /\ Ran({"fnletassign"}) /\ Given.found /\ Given.mutable
    /\ Last.sig = "runtime" /\ Last.msg = ImmutableMsg
    /\ Resolve(heap, root, "x") = Given

\* C19: when the scanner has returned, the last token is EOF, no other token
\* is EOF, and every other token's position has line >= 1 and column >= 1,
\* tokens after a newline and strings spanning several lines included.
C19_TokensPositioned ==
    lexer.phase = "done" =>
        LET tokens == lexer.tokens
        IN  /\ tokens # <<>>
            /\ tokens[Len(tokens)].Type = "EOF"
            /\ \A i \in 1..(Len(tokens) - 1) :
                 /\ tokens[i].Type # "EOF"
                 /\ tokens[i].Line >= 1
                 /\ tokens[i].Column >= 1

\* Every scan ends.
ScannerTerminates == <>(lexer.phase = "done")

FairLexer == SpecLexer /\ WF_vars(NextLexer)

\* C20: every iteration of the statement loop of parseProgram either moves the
\* token cursor forward or ends the loop, also after a diagnostic and also
\* when the statement starts with a token that has no prefix parser.
C20_EveryIterationAdvances ==
    [][parser.phase = "parse" =>
          parser'.current > parser.current \/ parser'.phase = "done"]_vars

\* The string that a literal of these parts stands for when n is "w" and v
\* is 1.
RECURSIVE Interpolated(_)
Interpolated(parts) ==
    IF parts = <<>> THEN ""
    ELSE (CASE Head(parts) = Segment("n") -> "w"
            [] Head(parts) = Segment("v") -> "1"
            [] OTHER -> Text(Head(parts)))
             \o Interpolated(Tail(parts))

\* C21: a string literal with ${expr} segments, lexed, parsed and evaluated,
\* yields the concatenation in order of its text parts and of the strings of
\* the segments' values: with n = "w", "h${n}" evaluates to "hw".
C21_InterpolationConcatenates ==
    hist # <<>> /\ Last.src.f = "text" =>
        \A parts \in PartLists :
            lexer.source = Interpolating(parts) =>
                /\ Last.sig = "ok"
                /\ Last.val = NewString(Interpolated(parts))

\* The items of the file that was run.
Stmts == Last.src.id

Tests == SelectSeq(Stmts, LAMBDA item : item \in {"t1", "t2", "t3", "t4", "t5"})

UndefinedError == "runtime error: " \o UndefinedMsg

\* Statement i fails when the statements before it that did not fail have
\* been evaluated: nope is unbound, and so are a second a or b, and b ahead
\* of a.
RECURSIVE Failing(_)
Failing(i) ==
    \/ Stmts[i] = "bad"
    \/ Stmts[i] = "a" /\ \E j \in 1..(i - 1) : Stmts[j] = "a"
    \/ Stmts[i] = "b" /\ ~\E j \in 1..(i - 1) : Stmts[j] = "a"
    \/ Stmts[i] = "b" /\ \E j \in 1..(i - 1) : Stmts[j] = "b" /\ ~Failing(j)

\* The bindings of a and b when all the statements up to k have been
\* evaluated.
Binds(name, k) == \E i \in 1..k : Stmts[i] = name /\ ~Failing(i)

\* What the test named item is to report in a file that holds Stmts.
Expected(item) ==
    CASE item = "t1" -> TestResult("t1", TRUE, "")
      [] item = "t2" -> TestResult("t2", FALSE, UndefinedError)
      [] item = "t3" -> IF Binds("a", Len(Stmts)) THEN TestResult("t3", TRUE, "")
                        ELSE TestResult("t3", FALSE, UndefinedError)
      [] item = "t4" -> IF Binds("b", Len(Stmts)) THEN TestResult("t4", TRUE, "")
                        ELSE TestResult("t4", FALSE, UndefinedError)
      [] item = "t5" -> TestResult("t5", FALSE, "differ")

Tested == hist # <<>> /\ Last.cmd = "test"

\* The scopes that RunTests created: one per test block, in order.
TestScope(i) == heap.envs[Len(before.envs) + i]

\* C22: RunTests gives one result per test block in source order; each body
\* runs in its own fresh child of the root scope, so that a name one test
\* defines is bound neither in another test nor in the root afterwards; a
\* failing test does not stop the later ones; a test passes iff its body
\* evaluates without failure, and the failure's message is kept otherwise.
C22_TestsAreIsolated ==
    Tested =>
        /\ Len(Last.results) = Len(Tests)
        /\ \A i \in DOMAIN Tests : Last.results[i] = Expected(Tests[i])
        /\ Len(heap.envs) = Len(before.envs) + Len(Tests)
        /\ \A i \in DOMAIN Tests :
              /\ TestScope(i).parent = root
              /\ DOMAIN TestScope(i).store = IF Tests[i] = "t1" THEN {"x"} ELSE {}
        /\ ~Resolve(heap, root, "x").found
        /\ Last.exit = IF \E i \in DOMAIN Tests : ~Expected(Tests[i]).Passed THEN 1 ELSE 0

\* t1 defines x and passes, t2 then fails on x, and t3 still passes.
C22_Witness ==
    /\ Tested
    /\ Stmts = <<"t1", "t2", "a">>
    /\ Last.results = <<TestResult("t1", TRUE, ""), TestResult("t2", FALSE, UndefinedError)>>

\* The binding of name in the root scope is the one that the statements up
\* to k make.
RootHolds(name, k) ==
    IF Binds(name, k) THEN Resolve(heap, root, name) = [found |-> TRUE, value |-> NewInt(1),
                                                       mutable |-> FALSE]
    ELSE ~Resolve(heap, root, name).found

\* C30: in RunTests the failure of a statement that is not a test block is
\* dropped: the statements after it and all the test blocks are still
\* evaluated in order, no result holds the failure, and the tests see what
\* the statements before and after it bound; Eval of the same program ends
\* at the first failing statement and evaluates none of the later ones.
C30_StatementFailuresDropped ==
    /\ Tested =>
          /\ \A name \in {"a", "b"} : RootHolds(name, Len(Stmts))
          /\ ~Resolve(heap, root, "c").found
          /\ Len(Last.results) = Len(Tests)
          /\ \A i \in DOMAIN Tests :
                /\ Last.results[i].Name = Tests[i]
                /\ Tests[i] = "t3" => Last.results[i].Passed = Binds("a", Len(Stmts))
                /\ Tests[i] = "t4" => Last.results[i].Passed = Binds("b", Len(Stmts))
                /\ Tests[i] = "t1" => Last.results[i].Passed
    /\ hist # <<>> /\ Last.cmd = "run" =>
          LET failures == {i \in DOMAIN Stmts : Stmts[i] \notin {"t1", "t2", "t3", "t4", "t5"}
                                                 /\ Failing(i)}
              first == CHOOSE i \in failures : \A j \in failures : i <= j
          IN  IF failures = {}
              THEN Last.sig = "ok" /\ \A name \in {"a", "b"} : RootHolds(name, Len(Stmts))
              ELSE /\ Last.sig = "runtime"
                   /\ \A name \in {"a", "b"} : RootHolds(name, first)

\* a is bound after the failing statement and t3 sees it.
C30_Witness ==
    /\ Tested
    /\ Stmts = <<"bad", "a", "t3">>
    /\ Last.results = <<TestResult("t3", TRUE, "")>>
    /\ Resolve(heap, root, "a").found

\* The root scope binds name to its built-in, immutably.
BuiltIn(h, name) ==
    Resolve(h, root, name) = [found |-> TRUE, value |-> BuiltinFn(name), mutable |-> FALSE]

\* C23: in the REPL, in `glace run` and in `glace test` the root scope binds
\* each of the nineteen built-in names to its built-in, immutably, before
\* the first statement is evaluated: reading one never fails as undefined,
\* and assigning to one or declaring it again at root scope fails and leaves
\* the binding as it was.
C23_BuiltinsRegistered ==
    /\ mode \in {"repl", "test", "done"} => \A name \in Required : BuiltIn(heap, name)
    /\ hist # <<>> /\ Last.cmd \in {"repl", "run"} =>
          /\ BuiltIn(before, Last.src.id)
          /\ Last.src.f = "bread" => Last.sig = "ok" /\ Last.val = BuiltinFn(Last.src.id)
          /\ Last.src.f = "bassign" => Last.sig = "runtime" /\ Last.msg = ImmutableMsg
          /\ Last.src.f \in {"blet", "bmut"} =>
                Last.sig = "runtime" /\ Last.msg = AlreadyDefinedMsg
    /\ Tested =>
          /\ BuiltIn(before, Last.src.id)
          /\ Last.src.f = "btest" => Last.results = <<TestResult("t", TRUE, "")>>

\* The scope of the second declaration binds the name when the declaration
\* is reached: the text declared it first, or an earlier line of the
\* session did.
Rebinds ==
    \/ Last.src.c # 0
    \/ Last.src.f \in RootDeclFams /\ Resolve(before, root, Last.src.id).found

\* C24: let, mut and a fn declaration fail with a runtime error when the
\* scope they stand in already binds the name; when one completes without
\* error, a lookup of the name in that scope yields the value it defined, for
\* fn the closure just built.
C24_RedeclarationFails ==
    Ran(DeclFams) =>
        IF Rebinds THEN Last.sig = "runtime" /\ Last.msg = AlreadyDefinedMsg
        ELSE /\ Last.sig = "ok"
             /\ IF Last.src.f \in {"dfn", "dfnin"}
                THEN /\ Last.val = FnRef(Len(heap.fns))
                     /\ heap.fns[Last.val.n].name = Last.src.id
                     /\ heap.fns[Last.val.n].body =
                            BlockStatement(<<ExpressionStatement(Lit(Last.src.b))>>)
                ELSE Last.val = NewInt(Last.src.b)

\* The scope that contains the loop of the last text, and the scope of its
\* j-th iteration.
Containing == IF Last.src.c = 0 THEN root ELSE Len(before.envs) + 1

Iteration(j) == Local(Last.src.c + j)

\* What the j-th iteration binds y to.
Bound(j) == IF Last.src.f = "itarray" THEN j ELSE j - 1

\* C25: every iteration of a loop runs in a scope of its own whose parent is
\* the scope that contains the loop: a let in the body does not collide with
\* an earlier iteration's, the for-in iterator is an immutable binding of the
\* iteration's scope, neither it nor the body's names are bound when the
\* loop has ended, and a closure made in one iteration sees that iteration's
\* iterator after later iterations have run.
C25_IterationsHaveOwnScope ==
    /\ Ran(DeclaringFams) =>
          /\ Last.sig = "ok"
          /\ Created = Last.src.c + Last.src.a
          /\ \A j \in 1..Last.src.a :
                /\ Iteration(j).parent = Containing
                /\ Iteration(j).store["y"] = binding(NewInt(Bound(j)), FALSE)
                /\ Last.src.f # "itwhile" =>
                      Iteration(j).store["i"] = binding(NewInt(Bound(j)), FALSE)
          /\ {"i", "y"} \cap DOMAIN heap.envs[Containing].store = {}
    /\ Ran({"itassign"}) =>
          /\ Last.sig = "runtime" /\ Last.msg = ImmutableMsg
          /\ Iteration(1).store = ("i" :> binding(NewInt(0), FALSE))
    /\ Ran({"itafter", "itafteri"}) => Last.sig = "runtime" /\ Last.msg = UndefinedMsg
    /\ Ran({"itclos"}) =>
          IF Last.src.b < Last.src.a THEN Last.sig = "ok" /\ Last.val = NewInt(Last.src.b)
          ELSE Last.sig = "runtime"

\* The closure of the first of three iterations is called after the loop.
C25_Witness ==
    /\ Ran({"itclos"})
    /\ Last.src.a = 3 /\ Last.src.b = 0
    /\ Last.val = NewInt(0)
    /\ Created >= 4

\* The values of the operands, in the order of Operand.
OperandValue ==
    <<TRUEV, FALSEV, NONE, NewInt(0), NewInt(1), NewString(""), NewString("s")>>

LeftValue == OperandValue[Last.src.a]

RightValue == OperandValue[Last.src.b]

\* The left operand does not decide the result.
RightIsDue ==
    IF Last.src.id = "&&" THEN IsTruthy(heap, LeftValue) ELSE ~IsTruthy(heap, LeftValue)

\* C26: the right operand of && is evaluated iff the left one is truthy, that
\* of || iff the left one is falsy; when it is not evaluated nothing of it
\* happens (no call, no assignment, no error) and the value is the left
\* operand's; on booleans the value is the conjunction or the disjunction.
C26_ShortCircuit ==
    /\ Ran({"lpure", "lcall"}) =>
          /\ Last.sig = "ok"
          /\ Last.val = IF RightIsDue THEN RightValue ELSE LeftValue
          /\ Last.src.a \in 1..2 /\ Last.src.b \in 1..2 =>
                Last.val = NewBool(IF Last.src.id = "&&"
                                   THEN Last.src.a = 1 /\ Last.src.b = 1
                                   ELSE Last.src.a = 1 \/ Last.src.b = 1)
    /\ Ran({"lcall"}) => Root("hits") = NewInt(IF RightIsDue THEN 1 ELSE 0)
    /\ Ran({"lpure"}) => heap = before
    /\ Ran({"lfail"}) =>
          /\ heap = before
          /\ IF RightIsDue THEN Last.sig = "runtime" /\ Last.msg = UndefinedMsg
             ELSE Last.sig = "ok" /\ Last.val = LeftValue

\* false && b() and 1 || b() leave b uncalled.
C26_Witness ==
    /\ Ran({"lcall"})
    /\ Last.src.id = "||" /\ Last.src.a = 5
    /\ Last.val = NewInt(1)
    /\ Root("hits") = NewInt(0)

\* C27: for every range that can be built, whatever its start, end and step
\* (0 and a step pointing away from the end included), a for-in loop over it
\* with a body that completes ends after finitely many iterations, and so
\* does array(r), with len(array(r)) == len(r).
C27_RangesTerminate ==
    /\ Ran({"rloop"}) => Last.sig = "ok" /\ Last.val.t = "int"
    /\ Ran({"rarray"}) => Last.sig = "ok" /\ Last.val = TRUEV

Held ==
    LET N == Last.src.a
    IN  IF Ran({"vgrown"}) THEN [j \in 1..(N + 1) |-> NewInt(IF j = N + 1 THEN 0 ELSE j)]
        ELSE [j \in 1..N |-> NewInt(j)]

\* C29: a for-in loop evaluates its iterable once and visits the elements the
\* array held when the loop started, in index order and once each, whatever
\* the body does to the array: the body is entered once per such element.
C29_LoopVisitsElementsAtStart ==
    Ran(VisitFams) =>
        /\ Last.sig = "ok"
        /\ Count("loop", 1) = 1
        /\ Count("body", 1) = Len(Held)
        /\ Last.val.t = "array"
        /\ heap.arrs[Last.val.n] =
              (IF Ran({"vonce"}) THEN Append(Held, NewInt(1)) ELSE Held)

====
